---- MODULE Spec2Model ----
(***************************************************************************)
(* Model of the oracle-core refresh command (core/src/commands/refresh.rs). *)
(*                                                                          *)
(* Spec    : one call of build_refresh_action on inputs drawn from bounded  *)
(*           sets (stage sources, oracle boxes, wallet).                    *)
(* SpecFn  : the pure helpers of the refresh command (deviation_check,      *)
(*           remove_largest_local_deviation_datapoint,                      *)
(*           filtered_oracle_boxes) applied to bounded lists of rates.      *)
(***************************************************************************)
EXTENDS Integers, Sequences, FiniteSets, TLC

VARIABLES
    refresh_contract,       \* RefreshContract::new(): min_data_points, max_deviation_percent
    in_pool_box,            \* live_epoch_stage_src.get_pool_box()
    in_refresh_box,         \* live_epoch_stage_src.get_refresh_box()
    in_oracle_boxes,        \* datapoint_stage_src.get_oracle_datapoint_boxes()
    unspent_boxes,          \* wallet.get_unspent_wallet_boxes()
    fault,                  \* which collaborator call fails, if any
    pc,                     \* "start" | "done"
    valid_in_oracle_boxes,  \* local of build_refresh_action (line 37)
    result,                 \* what build_refresh_action returned
    fn_out,                 \* SpecFn: result of the helper that was applied
    \* main.rs: the run loop (SpecLoop)
    read_only,              \* Command::Run { read_only }
    loop_pc,                \* position in main's loop / main_loop_iteration
    tick,                   \* number of the current loop iteration
    live_epoch_readable,    \* chain: does op.get_live_epoch_state() succeed now
    pool_state,             \* local pool_state of main_loop_iteration
    cmd,                    \* local cmd of main_loop_iteration
    action,                 \* local action of main_loop_iteration
    executed,               \* calls of execute_action, as <<tick, built>> records
    error_log,              \* ticks whose error was logged by main
    observations,           \* history: what each tick read and derived
    repost_channel,         \* the channel made by bounded(1)
    api_served,             \* status requests served by the GET API thread
    \* cli_commands/bootstrap.rs (SpecBootstrap)
    bootstrap_input,        \* BootstrapInput: wallet boxes, addresses, quantities
    bootstrap_pc,           \* position in bootstrap / the chained transaction
    num_transactions_left,  \* the index i of E_i
    minted_tokens,          \* tokens returned by mint_token so far, in order
    signed_txs,             \* signed transactions assembled so far, in order
    submitted_txs,          \* transactions the node accepted, in order
    bootstrap_result,       \* result of perform_bootstrap_chained_transaction
    oracle_config_file,     \* the oracle configuration file written by bootstrap
    collaborator_calls,     \* calls made to wallet, selector, signer and node
    \* box_kind/buyback_box.rs (SpecBuyback)
    buyback_input,          \* the raw box, reward token id and height handed in
    buyback_pc,             \* "start" | "constructed" | "panicked"
    buyback_wrapper,        \* the BuybackBoxWrapper made by new
    buyback_calls           \* calls made on the wrapper, with what they gave

refreshVars == <<refresh_contract, in_pool_box, in_refresh_box, in_oracle_boxes,
                 unspent_boxes, fault, pc, valid_in_oracle_boxes, result, fn_out>>

loopVars == <<read_only, loop_pc, tick, live_epoch_readable, pool_state, cmd,
              action, executed, error_log, observations, repost_channel,
              api_served>>

bootVars == <<bootstrap_input, bootstrap_pc, num_transactions_left,
              minted_tokens, signed_txs, submitted_txs, bootstrap_result,
              oracle_config_file, collaborator_calls>>

buybackVars == <<buyback_input, buyback_pc, buyback_wrapper, buyback_calls>>

vars == <<refreshVars, loopVars, bootVars, buybackVars>>

-----------------------------------------------------------------------------
(* Bounds of the model *)

MaxOracleBoxes == 4
MaxFnBoxes == 5
MaxTicks == 3
MaxApiRequests == 2
MaxRewardAmount == 2
MaxBuybackCalls == 2

(* Program constants *)

tx_fee == 1000000
height == 100
DefaultMinDataPoints == 4
DefaultMaxDeviationPercent == 5

(* Input domains *)

Rates == {100, 200}
FnRates == {95, 100, 101, 102, 103, 200}
Epochs == {1, 2}
RefreshRewards == {2, 100}
WalletChoices == {<<>>, <<500000>>, <<1000000>>, <<500000, 5000000>>}
Faults == {"none", "get_pool_box", "get_refresh_box",
           "get_oracle_datapoint_boxes", "get_unspent_wallet_boxes"}

RefreshContracts ==
    { [min_data_points |-> DefaultMinDataPoints,
       max_deviation_percent |-> DefaultMaxDeviationPercent],
      [min_data_points |-> 2, max_deviation_percent |-> 0] }

-----------------------------------------------------------------------------
(* Boxes.  Every raw box has the same shape; fields a role does not use are 0. *)

Box(kind, id, value, rate, epoch, reward, h) ==
    [kind |-> kind, id |-> id, value |-> value, rate |-> rate,
     epoch_counter |-> epoch, reward_tokens |-> reward, creation_height |-> h]

make_pool_box(datapoint, epoch_counter) ==
    Box("pool", 0, tx_fee, datapoint, epoch_counter, 0, height - 10)

make_refresh_box(reward) ==
    Box("refresh", 0, tx_fee, 0, 0, reward, height - 10)

make_datapoint_box(id, datapoint, epoch_counter, reward) ==
    Box("oracle", id, tx_fee, datapoint, epoch_counter, reward, height - 9)

WalletBox(id, value) == Box("wallet", id, value, 0, 0, 0, 0)

NoResult == [kind |-> "None"]

-----------------------------------------------------------------------------
(* successful_boxes.sort_by_key(|b| b.rate()): a stable sort, ascending by rate *)

RECURSIVE InsertByRate(_, _)
InsertByRate(b, s) ==
    IF s = <<>> THEN <<b>>
    ELSE IF s[Len(s)].rate <= b.rate THEN Append(s, b)
    ELSE Append(InsertByRate(b, SubSeq(s, 1, Len(s) - 1)), s[Len(s)])

(* a list left in the order in which it was supplied *)
sort_by_rate_unsorted(s) == s

RECURSIVE sort_by_rate(_)
sort_by_rate(s) ==
    IF s = <<>> THEN <<>>
    ELSE InsertByRate(s[Len(s)], sort_by_rate(SubSeq(s, 1, Len(s) - 1)))

(* deviation_check indexes datapoint_boxes[0] and [num - 1]: it panics on an
   empty list. *)
deviation_check_panics(datapoint_boxes) == Len(datapoint_boxes) = 0

(* deviation_check with a strict comparison instead of >= *)
deviation_check_strict(deviation_range, datapoint_boxes) ==
    LET num == Len(datapoint_boxes)
        max_datapoint == datapoint_boxes[1].rate
        min_datapoint == datapoint_boxes[num].rate
        deviation_delta == (max_datapoint * deviation_range) \div 100
    IN  min_datapoint > max_datapoint - deviation_delta

(* deviation_check: "max_datapoint" is the FIRST box of the list and
   "min_datapoint" the LAST one, as the code reads them. *)
deviation_check(deviation_range, datapoint_boxes) ==
    LET num == Len(datapoint_boxes)
        max_datapoint == datapoint_boxes[1].rate
        min_datapoint == datapoint_boxes[num].rate
        deviation_delta == (max_datapoint * deviation_range) \div 100
    IN  min_datapoint >= max_datapoint - deviation_delta

(* remove_largest_local_deviation_datapoint: every entry of `datapoints` is
   the rate of datapoint_boxes[0] (the closure ignores its argument). *)
remove_largest_local_deviation_datapoint(datapoint_boxes) ==
    IF Len(datapoint_boxes) <= 2
    THEN [status |-> "FailedToReachConsensus", boxes |-> <<>>]
    ELSE LET dp_len == Len(datapoint_boxes)
             datapoints == [i \in 1..dp_len |-> datapoint_boxes[1].rate]
             front_deviation == datapoints[1] - datapoints[2]
             back_deviation == datapoints[dp_len - 1] - datapoints[dp_len]
         IN  IF front_deviation >= back_deviation
             THEN [status |-> "Ok", boxes |-> Tail(datapoint_boxes)]
             ELSE [status |-> "Ok",
                   boxes |-> SubSeq(datapoint_boxes, 1, dp_len - 1)]

(* The while loop of filtered_oracle_boxes; `removed` counts its iterations. *)
RECURSIVE deviation_loop(_, _, _)
deviation_loop(contract, successful_boxes, removed) ==
    IF deviation_check_panics(successful_boxes)
    THEN [status |-> "Panic", boxes |-> <<>>, removed |-> removed]
    ELSE IF deviation_check(contract.max_deviation_percent, successful_boxes)
    THEN [status |-> "Ok", boxes |-> successful_boxes, removed |-> removed]
    ELSE LET r == remove_largest_local_deviation_datapoint(successful_boxes)
         IN  IF r.status # "Ok"
             THEN [status |-> r.status, boxes |-> <<>>, removed |-> removed]
             ELSE IF Len(r.boxes) < contract.min_data_points
             THEN [status |-> "FailedToReachConsensus", boxes |-> <<>>,
                   removed |-> removed + 1]
             ELSE deviation_loop(contract, r.boxes, removed + 1)

filtered_oracle_boxes(contract, oracle_boxes) ==
    deviation_loop(contract, sort_by_rate(oracle_boxes), 0)

-----------------------------------------------------------------------------
(* Output construction *)

RECURSIVE SumRates(_)
SumRates(boxes) ==
    IF boxes = <<>> THEN 0
    ELSE boxes[1].rate + SumRates(Tail(boxes))

(* calc_pool_rate is a stub in refresh.rs; modelled as the mean of the
   surviving rates (integer division). *)
calc_pool_rate(oracle_boxes) == SumRates(oracle_boxes) \div Len(oracle_boxes)

(* reward_decrement paying one token per oracle instead of two *)
reward_decrement_single(valid_oracle_boxes) == Len(valid_oracle_boxes)

(* let reward_decrement = valid_in_oracle_boxes.len() as u32 * 2; *)
reward_decrement(valid_oracle_boxes) == Len(valid_oracle_boxes) * 2

(* build_out_pool_box is a stub in refresh.rs; modelled as the pool box with
   the new rate, epoch counter + 1 and the new creation height. *)
build_out_pool_box(pool_box, creation_height, rate) ==
    [pool_box EXCEPT !.rate = rate,
                     !.epoch_counter = pool_box.epoch_counter + 1,
                     !.creation_height = creation_height]

(* build_out_refresh_box is a stub in refresh.rs; modelled as the refresh box
   with its reward tokens decremented.  A token amount is at least 1, so the
   candidate cannot be built when nothing would remain. *)
build_out_refresh_box_fails(refresh_box, decrement) ==
    refresh_box.reward_tokens - decrement < 1

build_out_refresh_box(refresh_box, creation_height, decrement) ==
    [refresh_box EXCEPT !.reward_tokens = refresh_box.reward_tokens - decrement,
                        !.creation_height = creation_height]

(* build_out_oracle_boxes that copies the reward token without adding one *)
build_out_oracle_boxes_same_reward(valid_oracle_boxes, creation_height) ==
    [i \in 1..Len(valid_oracle_boxes) |->
        [valid_oracle_boxes[i] EXCEPT
            !.rate = 0,
            !.epoch_counter = 0,
            !.creation_height = creation_height]]

(* build_out_oracle_boxes: same value, guard, public key (R4) and oracle
   token; reward token amount + 1; new creation height.  Only R4 is set on the
   candidate: the epoch counter (R5) and the rate (R6) are not copied. *)
build_out_oracle_boxes(valid_oracle_boxes, creation_height) ==
    [i \in 1..Len(valid_oracle_boxes) |->
        [valid_oracle_boxes[i] EXCEPT
            !.reward_tokens = valid_oracle_boxes[i].reward_tokens + 1,
            !.rate = 0,
            !.epoch_counter = 0,
            !.creation_height = creation_height]]

-----------------------------------------------------------------------------
(* SimpleBoxSelector::select(unspent_boxes, tx_fee, &[]): takes boxes in order
   until the target is covered; the surplus becomes a change box. *)

RECURSIVE SumValues(_)
SumValues(boxes) ==
    IF boxes = <<>> THEN 0
    ELSE boxes[1].value + SumValues(Tail(boxes))

RECURSIVE TakeUntil(_, _)
TakeUntil(boxes, target) ==
    IF boxes = <<>> \/ target <= 0 THEN <<>>
    ELSE <<boxes[1]>> \o TakeUntil(Tail(boxes), target - boxes[1].value)

box_selector_select(boxes, target) ==
    IF SumValues(boxes) < target
    THEN [status |-> "NotEnoughCoins", boxes |-> <<>>, change_boxes |-> <<>>]
    ELSE LET taken == TakeUntil(boxes, target)
             surplus == SumValues(taken) - target
         IN  [status |-> "Ok", boxes |-> taken,
              change_boxes |-> IF surplus > 0 THEN <<surplus>> ELSE <<>>]

-----------------------------------------------------------------------------
(* build_refresh_action, as one function of its inputs.  The returned record
   holds the value returned to the caller (`result`) and the local
   valid_in_oracle_boxes (`valid`), empty when line 37 was not passed. *)

Err(e) == [kind |-> "Err", error |-> e]
Panic(where) == [kind |-> "Panic", error |-> where]

(* build_tx that hands the old pool rate to build_out_pool_box *)
build_tx_old_rate(pool_box, refresh_box, valid, selection) ==
    LET out_pool_box == build_out_pool_box(pool_box, height, pool_box.rate)
        out_refresh_box ==
            build_out_refresh_box(refresh_box, height, reward_decrement(valid))
        out_oracle_boxes == build_out_oracle_boxes(valid, height)
        input_boxes == <<pool_box, refresh_box>> \o valid \o selection.boxes
        output_candidates == <<out_pool_box, out_refresh_box>> \o out_oracle_boxes
    IN  [inputs |-> input_boxes,
         output_candidates |-> output_candidates,
         change_boxes |-> selection.change_boxes,
         fee |-> tx_fee]

(* build_tx that does not append the selected wallet boxes to the inputs *)
build_tx_no_wallet_inputs(pool_box, refresh_box, valid, selection) ==
    LET rate == calc_pool_rate(valid)
        out_pool_box == build_out_pool_box(pool_box, height, rate)
        out_refresh_box ==
            build_out_refresh_box(refresh_box, height, reward_decrement(valid))
        out_oracle_boxes == build_out_oracle_boxes(valid, height)
        input_boxes == <<pool_box, refresh_box>> \o valid
        output_candidates == <<out_pool_box, out_refresh_box>> \o out_oracle_boxes
    IN  [inputs |-> input_boxes,
         output_candidates |-> output_candidates,
         change_boxes |-> selection.change_boxes,
         fee |-> tx_fee]

build_tx(pool_box, refresh_box, valid, selection) ==
    LET rate == calc_pool_rate(valid)
        out_pool_box == build_out_pool_box(pool_box, height, rate)
        out_refresh_box ==
            build_out_refresh_box(refresh_box, height, reward_decrement(valid))
        out_oracle_boxes == build_out_oracle_boxes(valid, height)
        input_boxes == <<pool_box, refresh_box>> \o valid \o selection.boxes
        output_candidates == <<out_pool_box, out_refresh_box>> \o out_oracle_boxes
    IN  [inputs |-> input_boxes,
         output_candidates |-> output_candidates,
         change_boxes |-> selection.change_boxes,
         fee |-> tx_fee]

build_refresh_action(contract, flt, pool_box, refresh_box, oracle_boxes, wallet_boxes) ==
    IF flt = "get_pool_box" \/ flt = "get_refresh_box"
       \/ flt = "get_oracle_datapoint_boxes"
    THEN [result |-> Err("StageError"), valid |-> <<>>]
    ELSE
    LET filtered == filtered_oracle_boxes(contract, oracle_boxes)
        valid == filtered.boxes
        selection == box_selector_select(wallet_boxes, tx_fee)
    IN  IF filtered.status = "Panic"
        THEN [result |-> Panic("deviation_check"), valid |-> <<>>]
        ELSE IF filtered.status # "Ok"
        THEN [result |-> Err(filtered.status), valid |-> <<>>]
        ELSE IF Len(valid) >= contract.min_data_points
        THEN [result |-> Err("NotEnoughOracleBoxes"), valid |-> valid]
        ELSE IF build_out_refresh_box_fails(refresh_box, reward_decrement(valid))
        THEN [result |-> Err("BuilderError"), valid |-> valid]
        ELSE IF flt = "get_unspent_wallet_boxes"
        THEN [result |-> Err("NodeError"), valid |-> valid]
        ELSE IF selection.status # "Ok"
        THEN [result |-> Err(selection.status), valid |-> valid]
        ELSE [result |-> [kind |-> "Ok", error |-> "",
                          tx |-> build_tx(pool_box, refresh_box, valid, selection)],
              valid |-> valid]

-----------------------------------------------------------------------------
(* Inputs *)

OracleBoxLists(rates, maxLen) ==
    UNION { [1..n -> rates \X Epochs] : n \in 0..maxLen }

MakeOracleBoxes(f) ==
    [i \in 1..Len(f) |-> make_datapoint_box(i, f[i][1], f[i][2], 5)]

MakeWalletBoxes(values) ==
    [i \in 1..Len(values) |-> WalletBox(i, values[i])]

NoFn == [op |-> "none"]

(* The run loop does not run in the specifications of the refresh command. *)
LoopIdle ==
    /\ read_only = FALSE
    /\ loop_pc = "not_started"
    /\ tick = 0
    /\ live_epoch_readable = FALSE
    /\ pool_state = "None"
    /\ cmd = "None"
    /\ action = "None"
    /\ executed = <<>>
    /\ error_log = <<>>
    /\ observations = <<>>
    /\ repost_channel = [queue |-> <<>>, senders |-> 0]
    /\ api_served = 0

(* No buyback box is wrapped in the other specifications. *)
BuybackIdle ==
    /\ buyback_input = [ergo_box |-> NoResult]
    /\ buyback_pc = "not_started"
    /\ buyback_wrapper = NoResult
    /\ buyback_calls = <<>>

(* The bootstrap command does not run in the other specifications. *)
BootstrapIdle ==
    /\ bootstrap_input = [unspent_boxes |-> <<>>]
    /\ bootstrap_pc = "not_started"
    /\ num_transactions_left = 0
    /\ minted_tokens = <<>>
    /\ signed_txs = <<>>
    /\ submitted_txs = <<>>
    /\ bootstrap_result = NoResult
    /\ oracle_config_file = NoResult
    /\ collaborator_calls = <<>>

(* The refresh command is not called directly in the other specifications. *)
RefreshIdle ==
    /\ refresh_contract = [min_data_points |-> DefaultMinDataPoints,
                           max_deviation_percent |-> DefaultMaxDeviationPercent]
    /\ in_pool_box = make_pool_box(1, 1)
    /\ in_refresh_box = make_refresh_box(100)
    /\ in_oracle_boxes = <<>>
    /\ unspent_boxes = <<>>
    /\ fault = "none"
    /\ pc = "idle"
    /\ valid_in_oracle_boxes = <<>>
    /\ result = NoResult
    /\ fn_out = NoFn

Init ==
    /\ refresh_contract \in RefreshContracts
    /\ in_pool_box = make_pool_box(1, 1)
    /\ \E reward \in RefreshRewards : in_refresh_box = make_refresh_box(reward)
    /\ \E f \in OracleBoxLists(Rates, MaxOracleBoxes) :
            in_oracle_boxes = MakeOracleBoxes(f)
    /\ \E flt \in Faults, w \in WalletChoices :
            /\ fault = flt
            /\ unspent_boxes = MakeWalletBoxes(w)
            /\ (flt # "none" => w = <<1000000>>)
    /\ pc = "start"
    /\ valid_in_oracle_boxes = <<>>
    /\ result = NoResult
    /\ fn_out = NoFn
    /\ LoopIdle
    /\ BootstrapIdle
    /\ BuybackIdle

(* One call of build_refresh_action. *)
BuildRefreshAction ==
    /\ pc = "start"
    /\ LET r == build_refresh_action(refresh_contract, fault, in_pool_box,
                    in_refresh_box, in_oracle_boxes, unspent_boxes)
       IN  /\ result' = r.result
           /\ valid_in_oracle_boxes' = r.valid
    /\ pc' = "done"
    /\ UNCHANGED <<refresh_contract, in_pool_box, in_refresh_box,
                   in_oracle_boxes, unspent_boxes, fault, fn_out>>
    /\ UNCHANGED <<loopVars, bootVars, buybackVars>>

Next == BuildRefreshAction

Spec == Init /\ [][Next]_vars

-----------------------------------------------------------------------------
(* SpecFn: the helpers of the refresh command applied to bounded lists. *)

InitFn ==
    /\ refresh_contract \in RefreshContracts
    /\ in_pool_box = make_pool_box(1, 1)
    /\ in_refresh_box = make_refresh_box(100)
    /\ \E f \in UNION { [1..n -> FnRates \X {1}] : n \in 0..MaxFnBoxes } :
            in_oracle_boxes = MakeOracleBoxes(f)
    /\ unspent_boxes = <<>>
    /\ fault = "none"
    /\ pc = "start"
    /\ valid_in_oracle_boxes = <<>>
    /\ result = NoResult
    /\ fn_out = NoFn
    /\ LoopIdle
    /\ BootstrapIdle
    /\ BuybackIdle

FnFrame == UNCHANGED <<refresh_contract, in_pool_box, in_refresh_box,
                       in_oracle_boxes, unspent_boxes, fault,
                       valid_in_oracle_boxes, result, loopVars, bootVars,
                       buybackVars>>

(* deviation_check on the sorted list, as filtered_oracle_boxes calls it *)
CallDeviationCheck ==
    /\ pc = "start"
    /\ LET sorted == sort_by_rate(in_oracle_boxes)
       IN  fn_out' =
             IF deviation_check_panics(sorted)
             THEN [op |-> "deviation_check", status |-> "Panic",
                   arg |-> sorted, pass |-> FALSE, boxes |-> <<>>, removed |-> 0]
             ELSE [op |-> "deviation_check", status |-> "Ok", arg |-> sorted,
                   pass |-> deviation_check(
                                refresh_contract.max_deviation_percent, sorted),
                   boxes |-> <<>>, removed |-> 0]
    /\ pc' = "done"
    /\ FnFrame

(* remove_largest_local_deviation_datapoint on the sorted list *)
CallRemoveLargestLocalDeviation ==
    /\ pc = "start"
    /\ LET sorted == sort_by_rate(in_oracle_boxes)
           r == remove_largest_local_deviation_datapoint(sorted)
       IN  fn_out' = [op |-> "remove", status |-> r.status, arg |-> sorted,
                      pass |-> FALSE, boxes |-> r.boxes, removed |-> 0]
    /\ pc' = "done"
    /\ FnFrame

(* filtered_oracle_boxes on the list as given *)
CallFilteredOracleBoxes ==
    /\ pc = "start"
    /\ LET r == filtered_oracle_boxes(refresh_contract, in_oracle_boxes)
       IN  fn_out' = [op |-> "filtered", status |-> r.status,
                      arg |-> in_oracle_boxes, pass |-> FALSE,
                      boxes |-> r.boxes, removed |-> r.removed]
    /\ pc' = "done"
    /\ FnFrame

NextFn ==
    \/ CallDeviationCheck
    \/ CallRemoveLargestLocalDeviation
    \/ CallFilteredOracleBoxes

SpecFn == InitFn /\ [][NextFn]_vars

-----------------------------------------------------------------------------
(* SpecLoop: main's run loop and main_loop_iteration (main.rs).  Every call
   to a collaborator (node, oracle pool, state::process, build_action,
   execute_action) returns Ok or Err as the environment decides. *)

(* an iteration that executes the action whatever the mode *)
should_execute_always(ro) == TRUE

(* if !read_only { execute_action(action)?; } *)
should_execute(ro) == ~ro

(* let (_, repost_receiver) = bounded(1): the sender is dropped at once *)
repost_channel_capacity == 1
bounded == [queue |-> <<>>, senders |-> 0]

(* a loop that hands a snapshot to the channel after every tick *)
loop_publish_snapshot(channel) ==
    [channel EXCEPT !.queue = Append(@, "snapshot")]

(* the loop body holds no sender and sends nothing *)
loop_publish(channel) == channel

(* a next tick that starts wherever the iteration stands *)
iteration_returned_anywhere(at) ==
    at \in {"loop", "get_live_epoch_state", "process", "build_action"}

(* loop { main_loop_iteration(..) .. sleep }: the next call is made when the
   last one has returned and the sleep is over *)
iteration_returned(at) == at = "loop"

(* a pool state that never leaves NeedsBootstrap *)
derive_pool_state_stuck(live_epoch_state) == "NeedsBootstrap"

(* match op.get_live_epoch_state() { Ok(..) => PoolState::LiveEpoch(..),
   Err(_) => PoolState::NeedsBootstrap } *)
derive_pool_state(live_epoch_state) ==
    IF live_epoch_state = "Ok" THEN "LiveEpoch" ELSE "NeedsBootstrap"

InitLoop ==
    /\ RefreshIdle
    /\ BootstrapIdle
    /\ BuybackIdle
    /\ read_only \in BOOLEAN
    /\ loop_pc = "loop"
    /\ tick = 0
    /\ live_epoch_readable \in BOOLEAN
    /\ pool_state = "None"
    /\ cmd = "None"
    /\ action = "None"
    /\ executed = <<>>
    /\ error_log = <<>>
    /\ observations = <<>>
    /\ repost_channel = bounded
    /\ api_served = 0

LoopFrame == UNCHANGED <<refreshVars, bootVars, buybackVars, read_only>>

(* the steps of the control loop leave the GET API thread alone *)
ApiFrame == UNCHANGED <<repost_channel, api_served>>

(* loop { main_loop_iteration(&op, read_only) ... : a new tick starts with
   fresh locals; the chain may have changed since the last tick. *)
StartIteration ==
    /\ iteration_returned(loop_pc)
    /\ tick < MaxTicks
    /\ tick' = tick + 1
    /\ live_epoch_readable' \in BOOLEAN
    /\ pool_state' = "None"
    /\ cmd' = "None"
    /\ action' = "None"
    /\ loop_pc' = "current_block_height"
    /\ UNCHANGED <<executed, error_log>>
    /\ UNCHANGED observations
    /\ ApiFrame
    /\ LoopFrame

(* let height = current_block_height()?; *)
CurrentBlockHeight ==
    /\ loop_pc = "current_block_height"
    /\ \E ok \in BOOLEAN :
          loop_pc' = IF ok THEN "get_live_epoch_state" ELSE "iteration_err"
    /\ UNCHANGED <<tick, live_epoch_readable, pool_state, cmd, action,
                   executed, error_log>>
    /\ UNCHANGED observations
    /\ ApiFrame
    /\ LoopFrame

(* let pool_state = match op.get_live_epoch_state() { Ok(..) => LiveEpoch,
   Err(_) => NeedsBootstrap }; *)
GetLiveEpochState ==
    /\ loop_pc = "get_live_epoch_state"
    /\ LET live_epoch_state == IF live_epoch_readable THEN "Ok" ELSE "Err"
       IN  /\ pool_state' = derive_pool_state(live_epoch_state)
           /\ observations' =
                  Append(observations,
                         [tick |-> tick, live_epoch_state |-> live_epoch_state,
                          pool_state |-> derive_pool_state(live_epoch_state)])
    /\ loop_pc' = "process"
    /\ UNCHANGED <<tick, live_epoch_readable, cmd, action, executed, error_log>>
    /\ ApiFrame
    /\ LoopFrame

(* state::process: Err, Ok(None) or Ok(Some(cmd)); a Refresh command is
   emitted only in a live epoch. *)
process(ps) ==
    {"Err", "None"} \cup (IF ps = "LiveEpoch" THEN {"Refresh"} ELSE {})

(* if let Some(cmd) = process(pool_state, height)? *)
Process ==
    /\ loop_pc = "process"
    /\ \E r \in process(pool_state) :
          /\ cmd' = IF r = "Err" THEN "None" ELSE r
          /\ loop_pc' = CASE r = "Err" -> "iteration_err"
                          [] r = "None" -> "iteration_ok"
                          [] OTHER -> "get_change_address"
    /\ UNCHANGED <<tick, live_epoch_readable, pool_state, action, executed,
                   error_log>>
    /\ UNCHANGED observations
    /\ ApiFrame
    /\ LoopFrame

(* get_change_address_from_node()? : evaluated as an argument of build_action *)
GetChangeAddress ==
    /\ loop_pc = "get_change_address"
    /\ \E ok \in BOOLEAN :
          loop_pc' = IF ok THEN "build_action" ELSE "iteration_err"
    /\ UNCHANGED <<tick, live_epoch_readable, pool_state, cmd, action,
                   executed, error_log>>
    /\ UNCHANGED observations
    /\ ApiFrame
    /\ LoopFrame

(* let action = build_action(cmd, op, &wallet, height, change_address)?; *)
BuildAction ==
    /\ loop_pc = "build_action"
    /\ \E ok \in BOOLEAN :
          /\ action' = IF ok THEN cmd ELSE "None"
          /\ loop_pc' = IF ok THEN "execute_action" ELSE "iteration_err"
    /\ UNCHANGED <<tick, live_epoch_readable, pool_state, cmd, executed,
                   error_log>>
    /\ UNCHANGED observations
    /\ ApiFrame
    /\ LoopFrame

(* if !read_only { execute_action(action)?; } *)
ExecuteAction ==
    /\ loop_pc = "execute_action"
    /\ IF should_execute(read_only)
       THEN /\ executed' = Append(executed,
                              [tick |-> tick, built |-> action # "None",
                               read_only |-> read_only])
            /\ \E ok \in BOOLEAN :
                  loop_pc' = IF ok THEN "iteration_ok" ELSE "iteration_err"
       ELSE /\ executed' = executed
            /\ loop_pc' = "iteration_ok"
    /\ UNCHANGED <<tick, live_epoch_readable, pool_state, cmd, action,
                   error_log>>
    /\ UNCHANGED observations
    /\ ApiFrame
    /\ LoopFrame

(* Ok(()) returned: thread::sleep(Duration::new(30, 0)) and loop again *)
SleepAfterIteration ==
    /\ loop_pc = "iteration_ok"
    /\ LET sent == loop_publish(repost_channel)
       IN  IF Len(sent.queue) > repost_channel_capacity
           THEN /\ loop_pc' = "blocked_on_send"
                /\ repost_channel' = repost_channel
           ELSE /\ loop_pc' = "loop"
                /\ repost_channel' = sent
    /\ UNCHANGED <<tick, live_epoch_readable, pool_state, cmd, action,
                   executed, error_log, observations, api_served>>
    /\ LoopFrame

(* Err(e) returned: error!("Fatal error: ...") and
   std::process::exit(exitcode::SOFTWARE) *)
ExitOnError ==
    /\ loop_pc = "iteration_err"
    /\ error_log' = Append(error_log, tick)
    /\ loop_pc' = "exited"
    /\ UNCHANGED <<tick, live_epoch_readable, pool_state, cmd, action,
                   executed>>
    /\ UNCHANGED observations
    /\ ApiFrame
    /\ LoopFrame

(* api::start_get_api(repost_receiver) on its own thread: a status request
   is answered from what the channel holds; the thread ends with the
   process *)
ApiServeStatus ==
    /\ loop_pc \notin {"not_started", "exited"}
    /\ api_served < MaxApiRequests
    /\ api_served' = api_served + 1
    /\ repost_channel' =
           IF repost_channel.queue = <<>> THEN repost_channel
           ELSE [repost_channel EXCEPT !.queue = Tail(@)]
    /\ UNCHANGED <<loop_pc, tick, live_epoch_readable, pool_state, cmd, action,
                   executed, error_log, observations>>
    /\ LoopFrame

NextLoop ==
    \/ StartIteration
    \/ CurrentBlockHeight
    \/ GetLiveEpochState
    \/ Process
    \/ GetChangeAddress
    \/ BuildAction
    \/ ExecuteAction
    \/ SleepAfterIteration
    \/ ExitOnError
    \/ ApiServeStatus

SpecLoop == InitLoop /\ [][NextLoop]_vars

-----------------------------------------------------------------------------
(* SpecBootstrap: cli_commands/bootstrap.rs.  Boxes of the chained
   transaction carry an id, a value, a guard and a list of tokens. *)

erg_value_per_box == 1000000
min_change_value == 10800
NodeErrors == {"NodeError1", "NodeError2"}

P2PK(address) == [contract |-> "P2PK", address |-> address]
wallet_pk_ergo_tree == P2PK("wallet_address_for_chain_transaction")
miner_fee_ergo_tree == [contract |-> "MinerFee"]

(* a token of which a single unit is made, whatever amount is asked for *)
Token_one_unit(token_id, amount) == [token_id |-> token_id, amount |-> 1]

Token(token_id, amount) == [token_id |-> token_id, amount |-> amount]

ErgoBox(box_id, value, ergo_tree, tokens, registers) ==
    [box_id |-> box_id, value |-> value, ergo_tree |-> ergo_tree,
     tokens |-> tokens, registers |-> registers]

RECURSIVE SumTokenAmount(_, _)
SumTokenAmount(tokens, token_id) ==
    IF tokens = <<>> THEN 0
    ELSE (IF Head(tokens).token_id = token_id THEN Head(tokens).amount ELSE 0)
         + SumTokenAmount(Tail(tokens), token_id)

RECURSIVE BoxesTokenAmount(_, _)
BoxesTokenAmount(boxes, token_id) ==
    IF boxes = <<>> THEN 0
    ELSE SumTokenAmount(Head(boxes).tokens, token_id)
         + BoxesTokenAmount(Tail(boxes), token_id)

TokenIdsOf(boxes) ==
    UNION {{boxes[i].tokens[j].token_id : j \in 1..Len(boxes[i].tokens)} :
              i \in 1..Len(boxes)}

RECURSIVE SetToSeq(_)
SetToSeq(S) ==
    IF S = {} THEN <<>>
    ELSE LET x == CHOOSE y \in S : TRUE IN <<x>> \o SetToSeq(S \ {x})

(* a target one nanoERG above E_i *)
calc_target_balance_plus_one(n) == erg_value_per_box * n + tx_fee * n + 1

(* E_{num_transactions_left} *)
calc_target_balance(n) == erg_value_per_box * n + tx_fee * n

(* outputs guarded by the wallet's key *)
filter_tx_outputs(outputs) ==
    SelectSeq(outputs, LAMBDA b : b.ergo_tree = wallet_pk_ergo_tree)

(* a chain whose later steps all draw on the outputs of the first transaction *)
chain_inputs_from_first(txs, k) == filter_tx_outputs(txs[1].outputs)

(* let inputs = filter_tx_outputs(signed_.._tx.outputs.clone()) *)
chain_inputs(txs, k) == filter_tx_outputs(txs[k].outputs)

(* SimpleBoxSelector: boxes are taken in the order given while the target
   balance is not reached or a box holds a target token still needed. *)
RECURSIVE select_loop(_, _, _, _)
select_loop(inputs, selected, target_balance, target_tokens) ==
    IF inputs = <<>> THEN selected
    ELSE LET b == Head(inputs)
             needed ==
                 \/ SumValues(selected) < target_balance
                 \/ \E k \in 1..Len(target_tokens) :
                       /\ BoxesTokenAmount(selected, target_tokens[k].token_id)
                              < target_tokens[k].amount
                       /\ SumTokenAmount(b.tokens, target_tokens[k].token_id) > 0
         IN  select_loop(Tail(inputs),
                         IF needed THEN Append(selected, b) ELSE selected,
                         target_balance, target_tokens)

simple_box_selector_select(inputs, target_balance, target_tokens) ==
    LET selected == select_loop(inputs, <<>>, target_balance, target_tokens)
        value == SumValues(selected)
        surplus(id) == BoxesTokenAmount(selected, id)
                           - SumTokenAmount(target_tokens, id)
        change_tokens ==
            SetToSeq({Token(id, surplus(id)) :
                         id \in {i \in TokenIdsOf(selected) : surplus(i) > 0}})
    IN  IF value < target_balance
        THEN [status |-> "NotEnoughCoins", boxes |-> <<>>, change_boxes |-> <<>>]
        ELSE IF \E k \in 1..Len(target_tokens) :
                    surplus(target_tokens[k].token_id) < 0
        THEN [status |-> "NotEnoughTokens", boxes |-> <<>>, change_boxes |-> <<>>]
        ELSE [status |-> "Ok", boxes |-> selected,
              change_boxes |->
                  IF value = target_balance /\ change_tokens = <<>> THEN <<>>
                  ELSE <<[value |-> value - target_balance,
                          tokens |-> change_tokens]>>]

(* TxBuilder::new(box_selection, output_candidates, height, tx_fee,
   change_address, BoxValue::MIN).build(): the outputs are the candidates, a
   change box for change of at least min_change_value, and the miner's fee
   box; the first input's id names the token that may be minted. *)
tx_builder_build(box_selection, output_candidates, change_address, tx_no) ==
    LET change == SelectSeq(box_selection.change_boxes,
                            LAMBDA c : c.value >= min_change_value)
        change_out == [i \in 1..Len(change) |->
                          ErgoBox(<<>>, change[i].value, P2PK(change_address),
                                  change[i].tokens, <<>>)]
        fee_box == ErgoBox(<<>>, tx_fee, miner_fee_ergo_tree, <<>>, <<>>)
        outs == output_candidates \o change_out \o <<fee_box>>
        inputs == box_selection.boxes
        minted_id == inputs[1].box_id
    IN  IF SumValues(outs) > SumValues(inputs)
        THEN [status |-> "NotEnoughCoins"]
        ELSE IF \E id \in TokenIdsOf(outs) \ {minted_id} :
                    BoxesTokenAmount(outs, id) > BoxesTokenAmount(inputs, id)
        THEN [status |-> "NotEnoughTokens"]
        ELSE [status |-> "Ok",
              tx |-> [tx_no |-> tx_no, inputs |-> inputs,
                      outputs |-> [j \in 1..Len(outs) |->
                                      [outs[j] EXCEPT !.box_id = <<tx_no, j>>]]]]

(* a token named after the last selected input *)
mint_token_id_last(boxes) == boxes[Len(boxes)].box_id

(* token_id: box_selection.boxes.first().box_id().into() *)
mint_token_id(boxes) == boxes[1].box_id

(* mint_token whose box of remaining funds is guarded by the change address *)
mint_token_remainder_to_change(input_boxes, n_left, amount, guard, tx_no, change_address) ==
    LET target_balance == calc_target_balance(n_left)
        box_selection == simple_box_selector_select(input_boxes,
                                                    target_balance, <<>>)
        token == Token(mint_token_id(box_selection.boxes), amount)
        token_box == ErgoBox(<<>>, erg_value_per_box, guard, <<token>>, <<>>)
        remaining_funds == ErgoBox(<<>>, calc_target_balance(n_left - 1),
                                   P2PK(change_address), <<>>, <<>>)
        built == tx_builder_build(box_selection,
                                  <<token_box, remaining_funds>>,
                                  change_address, tx_no)
    IN  IF box_selection.status # "Ok"
        THEN [status |-> "Err", error |-> "BoxSelector"]
        ELSE IF built.status # "Ok"
        THEN [status |-> "Err", error |-> "TxBuilder"]
        ELSE [status |-> "Ok", token |-> token, tx |-> built.tx]

(* mint_token up to the unsigned transaction *)
mint_token(input_boxes, n_left, amount, guard, tx_no, change_address) ==
    LET target_balance == calc_target_balance(n_left)
        box_selection == simple_box_selector_select(input_boxes,
                                                    target_balance, <<>>)
        token == Token(mint_token_id(box_selection.boxes), amount)
        token_box == ErgoBox(<<>>, erg_value_per_box, guard, <<token>>, <<>>)
        remaining_funds == ErgoBox(<<>>, calc_target_balance(n_left - 1),
                                   wallet_pk_ergo_tree, <<>>, <<>>)
        built == tx_builder_build(box_selection,
                                  <<token_box, remaining_funds>>,
                                  change_address, tx_no)
    IN  IF box_selection.status # "Ok"
        THEN [status |-> "Err", error |-> "BoxSelector"]
        ELSE IF built.status # "Ok"
        THEN [status |-> "Err", error |-> "TxBuilder"]
        ELSE [status |-> "Ok", token |-> token, tx |-> built.tx]

(* token ids that hand the refresh NFT's id over as the pool NFT's *)
update_token_ids_swapped(tokens) ==
    [pool_nft_token_id |-> tokens[2].token_id,
     ballot_token_id |-> tokens[3].token_id]

(* let token_ids = TokenIds { pool_nft_token_id, .., ballot_token_id }, the
   other ids being dummy values *)
update_token_ids(tokens) ==
    [pool_nft_token_id |-> tokens[1].token_id,
     ballot_token_id |-> tokens[3].token_id]

(* the contracts guarding the update, pool and refresh boxes *)
update_contract_ergo_tree(parameters, token_ids) ==
    [contract |-> "UpdateContract", min_votes |-> parameters.min_votes,
     pool_nft_token_id |-> token_ids.pool_nft_token_id,
     ballot_token_id |-> token_ids.ballot_token_id]

pool_contract_ergo_tree(token_ids) ==
    [contract |-> "PoolContract",
     refresh_nft_token_id |-> token_ids.refresh_nft_token_id,
     update_nft_token_id |-> token_ids.update_nft_token_id]

refresh_contract_ergo_tree(token_ids) ==
    [contract |-> "RefreshContract",
     pool_nft_token_id |-> token_ids.pool_nft_token_id,
     oracle_token_id |-> token_ids.oracle_token_id]

(* make_pool_box_candidate(contract, datapoint, epoch_counter, pool_nft,
   reward_token, value, height) *)
make_pool_box_candidate(tree, datapoint, epoch, pool_nft, reward, value) ==
    ErgoBox(<<>>, value, tree, <<pool_nft, reward>>, <<datapoint, epoch>>)

(* make_refresh_box_candidate(contract, refresh_nft, value, height) *)
make_refresh_box_candidate(ergo_tree, refresh_nft_token, value) ==
    ErgoBox(<<>>, value, ergo_tree, <<refresh_nft_token>>, <<>>)

(* a search that returns the last output, whatever it holds *)
find_box_with_token_last(outputs, token_id) == outputs[Len(outputs)]

(* outputs.iter().find(|b| b holds the token).unwrap() *)
find_box_with_token(outputs, token_id) ==
    outputs[CHOOSE j \in 1..Len(outputs) :
               /\ SumTokenAmount(outputs[j].tokens, token_id) > 0
               /\ \A i \in 1..(j - 1) :
                     SumTokenAmount(outputs[i].tokens, token_id) = 0]

Stages ==
    <<"mint_pool_nft", "mint_refresh_nft", "mint_ballot_tokens",
      "mint_update_nft", "mint_oracle_tokens", "mint_reward_tokens",
      "create_pool_box", "create_refresh_box", "submit">>

StageNo(stage) == CHOOSE i \in 1..Len(Stages) : Stages[i] = stage

(* a chain that starts submitting once the pool box transaction is signed *)
stage_after_eager(stage) ==
    IF stage = "create_pool_box" THEN "submit"
    ELSE Stages[StageNo(stage) + 1]

(* the statement that follows the signing of a stage's transaction *)
stage_after(stage) == Stages[StageNo(stage) + 1]

(* a call whose error is dropped instead of returned *)
question_mark_ignored(outcome) == FALSE

(* the ? operator: an Err returns from the function at once *)
question_mark(outcome) == outcome # "Ok"

(* the last two transactions submitted in the opposite order *)
tx_to_submit_swapped(txs, k) ==
    txs[IF k = 7 THEN 8 ELSE IF k = 8 THEN 7 ELSE k]

(* the k-th submit_transaction call hands over the k-th transaction *)
tx_to_submit(txs, k) == txs[k]

(* a failed submission that is skipped and followed by the next one *)
submit_failed_ignored(outcome) == FALSE

(* submit_tx.submit_transaction(&tx)? *)
submit_failed(outcome) == outcome # "Ok"

Called(call, outcome) ==
    [call |-> call, tx_no |-> Len(signed_txs) + 1, outcome |-> outcome]

SubmitCalls ==
    Len(SelectSeq(collaborator_calls,
                  LAMBDA c : c.call = "submit_transaction"))

(* a configuration that records the oracle and ballot token ids crosswise *)
OracleConfigFields_crossed(tokens) ==
    [pool_nft |-> tokens[1].token_id, refresh_nft |-> tokens[2].token_id,
     update_nft |-> tokens[4].token_id, oracle_token |-> tokens[3].token_id,
     ballot_token |-> tokens[5].token_id, reward_token |-> tokens[6].token_id]

(* Ok(OracleConfigFields { pool_nft: pool_nft_token.token_id, .. }) *)
OracleConfigFields(tokens) ==
    [pool_nft |-> tokens[1].token_id, refresh_nft |-> tokens[2].token_id,
     update_nft |-> tokens[4].token_id, oracle_token |-> tokens[5].token_id,
     ballot_token |-> tokens[3].token_id, reward_token |-> tokens[6].token_id]

BootstrapError(variant, source) == [variant |-> variant, source |-> source]

FundingChoices ==
    {<<>>, <<15999999>>, <<16000000>>, <<16000001>>, <<9000000, 8000000>>,
     <<100000000>>}

TokenQuantities ==
    {[ballot_tokens |-> 3, oracle_tokens |-> 2, reward_tokens |-> 5],
     [ballot_tokens |-> 3, oracle_tokens |-> 2, reward_tokens |-> 2],
     [ballot_tokens |-> 3, oracle_tokens |-> 2, reward_tokens |-> 1]}

InitBootstrap ==
    /\ RefreshIdle
    /\ LoopIdle
    /\ BuybackIdle
    /\ \E funding \in FundingChoices,
          change_address \in {"wallet_address_for_chain_transaction",
                              "change_address"},
          oracle_address \in {"wallet_address_for_chain_transaction",
                              "address_for_oracle_tokens"},
          quantities \in TokenQuantities :
          bootstrap_input =
              [unspent_boxes |->
                   [i \in 1..Len(funding) |->
                       ErgoBox(<<0, i>>, funding[i], wallet_pk_ergo_tree,
                               <<>>, <<>>)],
               change_address |-> change_address,
               address_for_oracle_tokens |-> oracle_address,
               tokens_to_mint |-> quantities,
               update_contract_parameters |-> [min_votes |-> 2]]
    /\ bootstrap_pc = "bootstrap"
    /\ num_transactions_left = 0
    /\ minted_tokens = <<>>
    /\ signed_txs = <<>>
    /\ submitted_txs = <<>>
    /\ bootstrap_result = NoResult
    /\ oracle_config_file = NoResult
    /\ collaborator_calls = <<>>

BootFrame == UNCHANGED <<refreshVars, loopVars, buybackVars, bootstrap_input>>

(* an error or a panic ends the call *)
BootstrapEnds(with, calls) ==
    /\ bootstrap_result' = with
    /\ bootstrap_pc' = "done"
    /\ collaborator_calls' = collaborator_calls \o calls
    /\ UNCHANGED <<num_transactions_left, minted_tokens, signed_txs,
                   submitted_txs, oracle_config_file>>

(* a counter that is decremented after the refresh box transaction too *)
count_down_always(n, by) == n - 1

(* num_transactions_left -= 1, where the code has it *)
count_down(n, by) == n - by

(* a transaction was assembled: sign it and count it *)
SignAndCount(stage, tx, tokens, decrement, calls) ==
    \E sign \in {"Ok"} \cup NodeErrors :
        LET log == calls \o <<Called("sign_transaction_with_inputs", sign)>>
        IN  IF question_mark(sign)
            THEN BootstrapEnds(Err(BootstrapError("Node", sign)), log)
            ELSE /\ signed_txs' = Append(signed_txs,
                                         [stage |-> stage, tx_no |-> tx.tx_no,
                                          inputs |-> tx.inputs,
                                          outputs |-> tx.outputs])
                 /\ minted_tokens' = minted_tokens \o tokens
                 /\ num_transactions_left' =
                        count_down(num_transactions_left, decrement)
                 /\ bootstrap_pc' = stage_after(stage)
                 /\ collaborator_calls' = collaborator_calls \o log
                 /\ UNCHANGED <<submitted_txs, bootstrap_result,
                                oracle_config_file>>

(* one call of the mint_token closure *)
MintStage(stage, input_boxes, token_amount, token_box_guard, calls) ==
    LET m == mint_token(input_boxes, num_transactions_left, token_amount,
                        token_box_guard, Len(signed_txs) + 1,
                        bootstrap_input.change_address)
    IN  IF m.status # "Ok"
        THEN BootstrapEnds(
                 Err(BootstrapError(m.error, "")),
                 calls \o (IF m.error = "BoxSelector"
                           THEN <<Called("select", m.error)>>
                           ELSE <<Called("select", "Ok"),
                                  Called("build", m.error)>>))
        ELSE SignAndCount(stage, m.tx, <<m.token>>, 1,
                          calls \o <<Called("select", "Ok"),
                                     Called("build", "Ok")>>)

(* bootstrap(): the configuration is loaded, wallet status and height are
   read from the node, then the chained transaction starts with
   num_transactions_left = 8 *)
LoadBootstrapConfig ==
    /\ bootstrap_pc = "bootstrap"
    /\ \E outcome \in {"Ok", "Io", "NoChangeAddressSetInNode"} \cup NodeErrors :
          IF outcome = "Ok"
          THEN /\ bootstrap_pc' = "mint_pool_nft"
               /\ num_transactions_left' = 8
               /\ UNCHANGED <<minted_tokens, signed_txs, submitted_txs,
                              bootstrap_result, oracle_config_file,
                              collaborator_calls>>
          ELSE BootstrapEnds(
                   Err(IF outcome \in NodeErrors
                       THEN BootstrapError("Node", outcome)
                       ELSE BootstrapError(outcome, "")), <<>>)
    /\ BootFrame

(* Mint pool NFT token: the wallet is swept for E_8 *)
MintPoolNft ==
    /\ bootstrap_pc = "mint_pool_nft"
    /\ \E wallet \in {"Ok"} \cup NodeErrors :
          LET calls == <<Called("get_unspent_wallet_boxes", wallet)>>
              box_selection ==
                  simple_box_selector_select(
                      bootstrap_input.unspent_boxes,
                      calc_target_balance(num_transactions_left), <<>>)
          IN  IF question_mark(wallet)
              THEN BootstrapEnds(Err(BootstrapError("Node", wallet)), calls)
              ELSE IF box_selection.status # "Ok"
              THEN BootstrapEnds(
                       Err(BootstrapError("BoxSelector", "")),
                       calls \o <<Called("select", box_selection.status)>>)
              ELSE MintStage("mint_pool_nft", box_selection.boxes, 1,
                             wallet_pk_ergo_tree,
                             calls \o <<Called("select", "Ok")>>)
    /\ BootFrame

(* Mint refresh NFT token *)
MintRefreshNft ==
    /\ bootstrap_pc = "mint_refresh_nft"
    /\ MintStage("mint_refresh_nft", chain_inputs(signed_txs, 1),
                 1, wallet_pk_ergo_tree, <<>>)
    /\ BootFrame

(* Mint ballot tokens *)
MintBallotTokens ==
    /\ bootstrap_pc = "mint_ballot_tokens"
    /\ MintStage("mint_ballot_tokens",
                 chain_inputs(signed_txs, 2),
                 bootstrap_input.tokens_to_mint.ballot_tokens,
                 wallet_pk_ergo_tree, <<>>)
    /\ BootFrame

(* Mint update NFT token: its box is guarded by the update contract, built
   from the ids of the pool NFT and the ballot token *)
MintUpdateNft ==
    /\ bootstrap_pc = "mint_update_nft"
    /\ \E new_update_contract \in {"Ok", "UpdateContract"} :
          IF question_mark(new_update_contract)
          THEN BootstrapEnds(Err(BootstrapError("UpdateContract", "")), <<>>)
          ELSE MintStage("mint_update_nft",
                         chain_inputs(signed_txs, 3), 1,
                         update_contract_ergo_tree(
                             bootstrap_input.update_contract_parameters,
                             update_token_ids(minted_tokens)),
                         <<>>)
    /\ BootFrame

(* Mint oracle tokens: their box is guarded by address_for_oracle_tokens *)
MintOracleTokens ==
    /\ bootstrap_pc = "mint_oracle_tokens"
    /\ MintStage("mint_oracle_tokens",
                 chain_inputs(signed_txs, 4),
                 bootstrap_input.tokens_to_mint.oracle_tokens,
                 P2PK(bootstrap_input.address_for_oracle_tokens), <<>>)
    /\ BootFrame

(* Mint reward tokens *)
MintRewardTokens ==
    /\ bootstrap_pc = "mint_reward_tokens"
    /\ MintStage("mint_reward_tokens",
                 chain_inputs(signed_txs, 5),
                 bootstrap_input.tokens_to_mint.reward_tokens,
                 wallet_pk_ergo_tree, <<>>)
    /\ BootFrame

(* the ids of the six minted tokens *)
TokenIds(tokens) ==
    [pool_nft_token_id |-> tokens[1].token_id,
     refresh_nft_token_id |-> tokens[2].token_id,
     ballot_token_id |-> tokens[3].token_id,
     update_nft_token_id |-> tokens[4].token_id,
     oracle_token_id |-> tokens[5].token_id,
     reward_token_id |-> tokens[6].token_id]

(* a pool box that is given every reward token minted *)
reward_tokens_for_pool_box_all(reward_token, oracle_token) == reward_token

(* Token { token_id: reward_token.token_id, amount: reward_token.amount
   .checked_sub(&oracle_token.amount).unwrap() }: one reward token per
   oracle is left out *)
reward_tokens_for_pool_box(reward_token, oracle_token) ==
    Token(reward_token.token_id, reward_token.amount - oracle_token.amount)

(* selection, transaction building and signing of the two box-creating
   transactions *)
CreateStage(stage, inputs, target_tokens, output_candidates, decrement) ==
    LET box_selection ==
            simple_box_selector_select(
                inputs, calc_target_balance(num_transactions_left),
                target_tokens)
        built == tx_builder_build(box_selection, output_candidates,
                                  bootstrap_input.change_address,
                                  Len(signed_txs) + 1)
    IN  IF box_selection.status # "Ok"
        THEN BootstrapEnds(Err(BootstrapError("BoxSelector", "")),
                           <<Called("select", box_selection.status)>>)
        ELSE IF built.status # "Ok"
        THEN BootstrapEnds(Err(BootstrapError("TxBuilder", "")),
                           <<Called("select", "Ok"),
                             Called("build", built.status)>>)
        ELSE SignAndCount(stage, built.tx, <<>>, decrement,
                          <<Called("select", "Ok"), Called("build", "Ok")>>)

(* Create pool box: PoolContract::new(..).unwrap() and
   reward.checked_sub(oracle).unwrap() panic on failure *)
CreatePoolBox ==
    /\ bootstrap_pc = "create_pool_box"
    /\ \E new_pool_contract \in {"Ok", "PoolContract"} :
          LET pool_nft_token == minted_tokens[1]
              oracle_token == minted_tokens[5]
              reward_token == minted_tokens[6]
              pool_box_candidate ==
                  make_pool_box_candidate(
                      pool_contract_ergo_tree(TokenIds(minted_tokens)), 0, 1,
                      pool_nft_token,
                      reward_tokens_for_pool_box(reward_token, oracle_token),
                      erg_value_per_box)
              remaining_funds ==
                  ErgoBox(<<>>, calc_target_balance(num_transactions_left - 1),
                          wallet_pk_ergo_tree, <<>>, <<>>)
              box_with_pool_nft ==
                  find_box_with_token(signed_txs[1].outputs,
                                      pool_nft_token.token_id)
              inputs == Append(chain_inputs(signed_txs, 6),
                               box_with_pool_nft)
          IN  IF new_pool_contract # "Ok"
              THEN BootstrapEnds(Panic("PoolContract::new"), <<>>)
              ELSE IF reward_token.amount - oracle_token.amount < 1
              THEN BootstrapEnds(Panic("checked_sub"), <<>>)
              ELSE CreateStage("create_pool_box", inputs,
                               <<pool_nft_token, reward_token>>,
                               <<pool_box_candidate, remaining_funds>>, 1)
    /\ BootFrame

(* Create refresh box: no box for remaining funds is built and the counter
   is not decremented *)
CreateRefreshBox ==
    /\ bootstrap_pc = "create_refresh_box"
    /\ \E new_refresh_contract \in {"Ok", "RefreshContract"} :
          LET refresh_nft_token == minted_tokens[2]
              refresh_box_candidate ==
                  make_refresh_box_candidate(
                      refresh_contract_ergo_tree(TokenIds(minted_tokens)),
                      refresh_nft_token, erg_value_per_box)
              box_with_refresh_nft ==
                  find_box_with_token(signed_txs[2].outputs,
                                      refresh_nft_token.token_id)
              inputs == Append(chain_inputs(signed_txs, 7),
                               box_with_refresh_nft)
          IN  IF question_mark(new_refresh_contract)
              THEN BootstrapEnds(Err(BootstrapError("RefreshContract", "")),
                                 <<>>)
              ELSE CreateStage("create_refresh_box", inputs,
                               <<refresh_nft_token>>,
                               <<refresh_box_candidate>>, 0)
    /\ BootFrame

(* submit_tx.submit_transaction(&signed_..._tx)?, eight times in a row *)
SubmitTransaction ==
    /\ bootstrap_pc = "submit"
    /\ \E submit \in {"Ok"} \cup NodeErrors :
          LET k == SubmitCalls + 1
              log == <<[call |-> "submit_transaction", tx_no |-> k,
                        outcome |-> submit]>>
          IN  IF submit_failed(submit)
              THEN BootstrapEnds(Err(BootstrapError("Node", submit)), log)
              ELSE /\ submitted_txs' =
                          IF submit = "Ok"
                          THEN Append(submitted_txs, tx_to_submit(signed_txs, k))
                          ELSE submitted_txs
                   /\ bootstrap_pc' = IF k = 8 THEN "return" ELSE "submit"
                   /\ collaborator_calls' = collaborator_calls \o log
                   /\ UNCHANGED <<num_transactions_left, minted_tokens,
                                  signed_txs, bootstrap_result,
                                  oracle_config_file>>
    /\ BootFrame

(* Ok(OracleConfigFields { .. }) *)
ReturnOracleConfig ==
    /\ bootstrap_pc = "return"
    /\ bootstrap_result' = [kind |-> "Ok",
                            config |-> OracleConfigFields(minted_tokens)]
    /\ bootstrap_pc' = "write_config"
    /\ UNCHANGED <<num_transactions_left, minted_tokens, signed_txs,
                   submitted_txs, oracle_config_file, collaborator_calls>>
    /\ BootFrame

(* bootstrap(): the returned configuration is serialised and written to the
   oracle configuration file *)
WriteOracleConfigFile ==
    /\ bootstrap_pc = "write_config"
    /\ \E io \in {"Ok", "Io"} :
          IF question_mark(io)
          THEN BootstrapEnds(Err(BootstrapError("Io", "")), <<>>)
          ELSE /\ oracle_config_file' = bootstrap_result.config
               /\ bootstrap_pc' = "done"
               /\ UNCHANGED <<num_transactions_left, minted_tokens,
                              signed_txs, submitted_txs, bootstrap_result,
                              collaborator_calls>>
    /\ BootFrame

NextBootstrap ==
    \/ LoadBootstrapConfig
    \/ MintPoolNft
    \/ MintRefreshNft
    \/ MintBallotTokens
    \/ MintUpdateNft
    \/ MintOracleTokens
    \/ MintRewardTokens
    \/ CreatePoolBox
    \/ CreateRefreshBox
    \/ SubmitTransaction
    \/ ReturnOracleConfig
    \/ WriteOracleConfigFile

SpecBootstrap == InitBootstrap /\ [][NextBootstrap]_vars

-----------------------------------------------------------------------------
(* SpecBuyback: box_kind/buyback_box.rs.  An ErgoBox holds its tokens as
   Option<BoxTokens>, a BoxTokens being a list of at least one token; None is
   the box without tokens. *)

None == <<>>
Some(x) == <<x>>

BuybackNft == "buyback_nft"
RewardTokenIds == {"reward_token", "other_token"}

(* pub fn new(ergo_box, reward_token_id) -> Self *)
BuybackBoxWrapper_new(ergo_box, reward_token_id) ==
    [ergo_box |-> ergo_box, reward_token_id |-> reward_token_id]

(* self.ergo_box.tokens.as_ref().unwrap().get(1).map(|token| SpecToken {..}) *)
reward_token(self) ==
    LET tokens == self.ergo_box.tokens
    IN  IF tokens = None THEN Panic("Option::unwrap")
        ELSE [kind |-> "Ok",
              value |-> IF Len(tokens) >= 2
                        THEN Some(Token(tokens[2].token_id, tokens[2].amount))
                        ELSE None]

(* a candidate that carries the box's own reward token on *)
new_with_the_box_reward_token(self, creation_height) ==
    LET tokens == self.ergo_box.tokens
    IN  IF tokens = None THEN Panic("Option::unwrap")
        ELSE [kind |-> "Ok",
              value |->
                  [value |-> self.ergo_box.value,
                   ergo_tree |-> self.ergo_box.ergo_tree,
                   tokens |-> IF Len(tokens) >= 2
                              THEN <<tokens[1], tokens[2]>>
                              ELSE <<tokens[1], Token(self.reward_token_id, 1)>>,
                   additional_registers |-> self.ergo_box.additional_registers,
                   creation_height |-> creation_height]]

(* pub fn new_with_one_reward_token(&self, creation_height) *)
new_with_one_reward_token(self, creation_height) ==
    LET tokens == self.ergo_box.tokens
        single_reward_token == Token(self.reward_token_id, 1)
    IN  IF tokens = None THEN Panic("Option::unwrap")
        ELSE [kind |-> "Ok",
              value |->
                  [value |-> self.ergo_box.value,
                   ergo_tree |-> self.ergo_box.ergo_tree,
                   tokens |-> <<tokens[1], single_reward_token>>,
                   additional_registers |-> self.ergo_box.additional_registers,
                   creation_height |-> creation_height]]

(* the token lists of the raw boxes handed to new *)
BuybackTokenChoices ==
    {None, <<Token(BuybackNft, 1)>>, <<Token("other_nft", 1)>>}
    \cup {<<Token(BuybackNft, 1), Token(id, n)>> :
              id \in RewardTokenIds, n \in 1..MaxRewardAmount}
    \cup {<<Token(BuybackNft, 1), Token("reward_token", n), Token("extra", 1)>> :
              n \in 1..MaxRewardAmount}

InitBuyback ==
    /\ RefreshIdle
    /\ LoopIdle
    /\ BootstrapIdle
    /\ \E value \in {1000000, 2000000}, tokens \in BuybackTokenChoices,
          registers \in {<<>>, <<7>>}, id \in RewardTokenIds,
          creation_height \in {height, height + 1} :
          buyback_input =
              [ergo_box |-> [box_id |-> "buyback_box", value |-> value,
                             ergo_tree |-> [contract |-> "Buyback"],
                             tokens |-> tokens,
                             additional_registers |-> registers,
                             creation_height |-> height - 1],
               reward_token_id |-> id,
               creation_height |-> creation_height]
    /\ buyback_pc = "start"
    /\ buyback_wrapper = NoResult
    /\ buyback_calls = <<>>

BuybackFrame == UNCHANGED <<refreshVars, loopVars, bootVars, buyback_input>>

(* BuybackBoxWrapper::new(ergo_box, reward_token_id) *)
NewBuybackBoxWrapper ==
    /\ buyback_pc = "start"
    /\ buyback_wrapper' = BuybackBoxWrapper_new(buyback_input.ergo_box,
                                                buyback_input.reward_token_id)
    /\ buyback_pc' = "constructed"
    /\ UNCHANGED buyback_calls
    /\ BuybackFrame

(* a call on &self: the wrapper stays as it is; a panic ends the thread *)
BuybackCall(op, outcome) ==
    /\ buyback_pc = "constructed"
    /\ Len(buyback_calls) < MaxBuybackCalls
    /\ buyback_calls' = Append(buyback_calls, [op |-> op, outcome |-> outcome])
    /\ buyback_pc' = IF outcome.kind = "Panic" THEN "panicked"
                     ELSE "constructed"
    /\ UNCHANGED buyback_wrapper
    /\ BuybackFrame

(* wrapper.reward_token() *)
CallRewardToken == BuybackCall("reward_token", reward_token(buyback_wrapper))

(* wrapper.new_with_one_reward_token(creation_height) *)
CallNewWithOneRewardToken ==
    BuybackCall("new_with_one_reward_token",
                new_with_one_reward_token(buyback_wrapper,
                                          buyback_input.creation_height))

NextBuyback ==
    \/ NewBuybackBoxWrapper
    \/ CallRewardToken
    \/ CallNewWithOneRewardToken

SpecBuyback == InitBuyback /\ [][NextBuyback]_vars

-----------------------------------------------------------------------------
(* Vocabulary of the properties *)

RatesOf(boxes) == [i \in 1..Len(boxes) |-> boxes[i].rate]

IsSortedByRate(boxes) ==
    \A i \in 1..Len(boxes) - 1 : boxes[i].rate <= boxes[i + 1].rate

LargestRate(boxes) ==
    CHOOSE r \in {boxes[i].rate : i \in 1..Len(boxes)} :
        \A i \in 1..Len(boxes) : boxes[i].rate <= r

SmallestRate(boxes) ==
    CHOOSE r \in {boxes[i].rate : i \in 1..Len(boxes)} :
        \A i \in 1..Len(boxes) : r <= boxes[i].rate

(* The deviation bound on the true extremes of a non-empty list *)
WithinDeviation(percent, boxes) ==
    SmallestRate(boxes) >=
        LargestRate(boxes) - ((LargestRate(boxes) * percent) \div 100)

(* min == max - max * deviation / 100 *)
OnDeviationBoundary(percent, boxes) ==
    SmallestRate(boxes) =
        LargestRate(boxes) - ((LargestRate(boxes) * percent) \div 100)

FilteredCalled == fn_out.op = "filtered"
FilteredReturned == FilteredCalled /\ fn_out.status = "Ok"
EnoughInput == Len(in_oracle_boxes) >= refresh_contract.min_data_points

-----------------------------------------------------------------------------
(* C1: for every list of N >= min_data_points rates, deviation filtering
   terminates after at most N removals, and it ends either with a surviving
   set that meets the deviation bound (on its true extremes) or with the
   consensus error, the latter only when a further removal would leave fewer
   than min_data_points boxes. *)
C1_FilteringTerminatesWithinBound ==
    (FilteredCalled /\ EnoughInput) =>
        /\ fn_out.status \in {"Ok", "FailedToReachConsensus"}
        /\ fn_out.removed <= Len(in_oracle_boxes)
        /\ (fn_out.status = "Ok" =>
                WithinDeviation(refresh_contract.max_deviation_percent,
                                fn_out.boxes))
        /\ (fn_out.status = "FailedToReachConsensus" =>
                Len(in_oracle_boxes) - fn_out.removed
                    <= refresh_contract.min_data_points)

(* C2: whenever deviation filtering returns a surviving set, the set is sorted
   by rate ascending and its smallest rate is >= largest - largest * percent
   / 100. *)
C2_SurvivorsSortedAndWithinDeviation ==
    (FilteredReturned /\ fn_out.boxes # <<>>) =>
        /\ IsSortedByRate(fn_out.boxes)
        /\ WithinDeviation(refresh_contract.max_deviation_percent, fn_out.boxes)

(* C3: once build_refresh_action has its survivors, it fails with
   NotEnoughOracleBoxes exactly when their number is below min_data_points. *)
CountCheckReached ==
    /\ pc = "done"
    /\ fault \notin {"get_pool_box", "get_refresh_box",
                     "get_oracle_datapoint_boxes"}
    /\ filtered_oracle_boxes(refresh_contract, in_oracle_boxes).status = "Ok"

C3_NotEnoughIffBelowMin ==
    CountCheckReached =>
        ((result = Err("NotEnoughOracleBoxes"))
            <=> (Len(valid_in_oracle_boxes) < refresh_contract.min_data_points))

(* C4: only oracle boxes whose epoch counter equals the epoch counter of the
   pool box are among the survivors, the inputs and the outputs of a refresh. *)
LiveEpochOnly(boxes) ==
    \A i \in 1..Len(boxes) :
        boxes[i].kind = "oracle" =>
            boxes[i].epoch_counter = in_pool_box.epoch_counter

(* every oracle output belongs to an input oracle box of the live epoch *)
LiveEpochOutputs(outputs) ==
    \A i \in 1..Len(outputs) :
        outputs[i].kind = "oracle" =>
            \A j \in 1..Len(in_oracle_boxes) :
                in_oracle_boxes[j].id = outputs[i].id =>
                    in_oracle_boxes[j].epoch_counter = in_pool_box.epoch_counter

C4_OnlyLiveEpochBoxesRetained ==
    pc = "done" =>
        /\ LiveEpochOnly(valid_in_oracle_boxes)
        /\ (result.kind = "Ok" =>
                /\ LiveEpochOnly(result.tx.inputs)
                /\ LiveEpochOutputs(result.tx.output_candidates))

(* C5: an elimination step on a sorted list that fails the deviation bound removes exactly one endpoint: the
   largest rate when the gap between the two largest rates is >= the gap
   between the two smallest rates, the smallest rate otherwise; the other
   boxes keep their order. *)
C5_RemovesEndpointOfLargerGap ==
    (/\ fn_out.op = "remove"
     /\ fn_out.status = "Ok"
     /\ ~WithinDeviation(refresh_contract.max_deviation_percent, fn_out.arg)) =>
        LET s == fn_out.arg
            n == Len(s)
            top_gap == s[n].rate - s[n - 1].rate
            bottom_gap == s[2].rate - s[1].rate
        IN  RatesOf(fn_out.boxes) =
                IF top_gap >= bottom_gap
                THEN RatesOf(SubSeq(s, 1, n - 1))
                ELSE RatesOf(Tail(s))

(* C6: on N >= min_data_points boxes, filtering either fails with
   FailedToReachConsensus or returns at least min_data_points boxes that pass
   the deviation bound. *)
C6_NeverReturnsTooFewOrDeviating ==
    (FilteredCalled /\ EnoughInput) =>
        \/ fn_out.status = "FailedToReachConsensus"
        \/ /\ fn_out.status = "Ok"
           /\ Len(fn_out.boxes) >= refresh_contract.min_data_points
           /\ WithinDeviation(refresh_contract.max_deviation_percent,
                              fn_out.boxes)

(* C7: rates [100,101,102,103,200] with 5% and min_data_points 4 are filtered
   to [100,101,102,103]. *)
C7_ExampleDrops200 ==
    (/\ FilteredCalled
     /\ refresh_contract.min_data_points = 4
     /\ refresh_contract.max_deviation_percent = 5
     /\ RatesOf(in_oracle_boxes) = <<100, 101, 102, 103, 200>>) =>
        /\ fn_out.status = "Ok"
        /\ RatesOf(fn_out.boxes) = <<100, 101, 102, 103>>

(* C8: a list of exactly min_data_points rates whose smallest rate equals
   largest - largest * percent / 100 passes the deviation check and is
   returned by filtering with no box removed. *)
OnBoundaryInput ==
    /\ Len(in_oracle_boxes) = refresh_contract.min_data_points
    /\ OnDeviationBoundary(refresh_contract.max_deviation_percent,
                           in_oracle_boxes)

C8_InclusiveBoundAccepted ==
    OnBoundaryInput =>
        /\ (fn_out.op = "deviation_check" =>
                fn_out.status = "Ok" /\ fn_out.pass)
        /\ (FilteredCalled =>
                /\ fn_out.status = "Ok"
                /\ fn_out.removed = 0
                /\ fn_out.boxes = sort_by_rate(in_oracle_boxes))

(* [100,100] with min_data_points 2 and 0% has been checked and passed *)
C8_Witness ==
    /\ fn_out.op = "deviation_check"
    /\ refresh_contract.min_data_points = 2
    /\ refresh_contract.max_deviation_percent = 0
    /\ RatesOf(fn_out.arg) = <<100, 100>>
    /\ OnBoundaryInput
    /\ fn_out.pass

(* C9: build_refresh_action returns Ok or Err for every input; it never
   panics. *)
C9_NeverPanics ==
    pc = "done" => result.kind \in {"Ok", "Err"}

(* C10: the reward tokens of the output refresh box are those of the input
   refresh box minus 2 * the number of surviving oracle boxes. *)
C10_RefreshRewardDecrement ==
    result.kind = "Ok" =>
        /\ result.tx.output_candidates[2].kind = "refresh"
        /\ result.tx.output_candidates[2].reward_tokens =
             in_refresh_box.reward_tokens - 2 * Len(valid_in_oracle_boxes)

(* a refresh over three survivors was built *)
C10_Witness ==
    /\ result.kind = "Ok"
    /\ Len(valid_in_oracle_boxes) = 3
    /\ result.tx.output_candidates[2].reward_tokens = 94

(* C11: the oracle outputs of a refresh are, in order, one per surviving
   oracle box, each with the guard, value, public key and oracle token of its
   input, the reward-token amount of its input + 1 and the current height as
   creation height; no other oracle box gets an output. *)
OracleOutputs(tx) == SubSeq(tx.output_candidates, 3, Len(tx.output_candidates))

C11_OneRewardedOutputPerSurvivor ==
    result.kind = "Ok" =>
        LET outs == OracleOutputs(result.tx)
            ins == valid_in_oracle_boxes
        IN  /\ Len(outs) = Len(ins)
            /\ \A i \in 1..Len(ins) :
                  /\ outs[i].kind = ins[i].kind
                  /\ outs[i].id = ins[i].id
                  /\ outs[i].value = ins[i].value
                  /\ outs[i].reward_tokens = ins[i].reward_tokens + 1
                  /\ outs[i].creation_height = height
            /\ \A k \in 1..2 : result.tx.output_candidates[k].kind # "oracle"

(* a refresh over survivors that were not supplied in ascending rate order *)
C11_Witness ==
    /\ result.kind = "Ok"
    /\ Len(valid_in_oracle_boxes) = 3
    /\ in_oracle_boxes[1].rate > in_oracle_boxes[2].rate
    /\ OracleOutputs(result.tx)[1].id = 2
    /\ OracleOutputs(result.tx)[1].reward_tokens = 6

(* C12: the first output of a refresh is a pool box whose epoch counter is the
   input pool box's + 1 and whose rate is the aggregate rate of the
   survivors. *)
C12_NewPoolBoxRateAndEpoch ==
    result.kind = "Ok" =>
        /\ result.tx.output_candidates[1].kind = "pool"
        /\ result.tx.output_candidates[1].epoch_counter =
               in_pool_box.epoch_counter + 1
        /\ result.tx.output_candidates[1].rate =
               calc_pool_rate(valid_in_oracle_boxes)

(* a refresh over the rates 100, 200, 200 gave the pool rate 166 *)
C12_Witness ==
    /\ result.kind = "Ok"
    /\ RatesOf(valid_in_oracle_boxes) = <<100, 200, 200>>
    /\ result.tx.output_candidates[1].rate = 166
    /\ result.tx.output_candidates[1].epoch_counter = 2

(* C14: in a refresh transaction the input values sum to the output values
   (candidates and change) plus the fee, and neither the reward tokens nor the
   role tokens of any kind of box grow from inputs to outputs. *)
RECURSIVE SumSeq(_)
SumSeq(s) == IF s = <<>> THEN 0 ELSE s[1] + SumSeq(Tail(s))

RECURSIVE SumRewards(_)
SumRewards(boxes) ==
    IF boxes = <<>> THEN 0
    ELSE boxes[1].reward_tokens + SumRewards(Tail(boxes))

CountKind(boxes, kind) ==
    Cardinality({i \in 1..Len(boxes) : boxes[i].kind = kind})

C14_RefreshConservesValueAndTokens ==
    result.kind = "Ok" =>
        LET tx == result.tx
        IN  /\ SumValues(tx.inputs) =
                 SumValues(tx.output_candidates) + SumSeq(tx.change_boxes)
                     + tx.fee
            /\ SumRewards(tx.inputs) >= SumRewards(tx.output_candidates)
            /\ \A kind \in {"pool", "refresh", "oracle"} :
                 CountKind(tx.inputs, kind)
                     >= CountKind(tx.output_candidates, kind)

(* a refresh whose wallet selection left change *)
C14_Witness ==
    /\ result.kind = "Ok"
    /\ Len(valid_in_oracle_boxes) = 2
    /\ result.tx.change_boxes = <<4500000>>
    /\ SumValues(result.tx.inputs) = 9500000

(* C15: building an action submits nothing; an action is executed at most
   once per tick, only after it was built in that tick, and never in
   read-only mode. *)
C15_ExecuteOncePerTickAfterBuild ==
    /\ \A i, j \in 1..Len(executed) :
          executed[i].tick = executed[j].tick => i = j
    /\ \A i \in 1..Len(executed) :
          /\ executed[i].built
          /\ ~executed[i].read_only
          /\ executed[i].tick <= tick
    /\ (read_only => executed = <<>>)
    /\ (loop_pc \in {"current_block_height", "get_live_epoch_state", "process",
                     "get_change_address", "build_action", "execute_action"}
            => \A i \in 1..Len(executed) : executed[i].tick < tick)

(* an action was built and executed in the second tick *)
C15_Witness ==
    /\ loop_pc = "iteration_ok"
    /\ tick = 2
    /\ action = "Refresh"
    /\ Len(executed) = 2
    /\ executed[2].tick = 2

(* a read-only node built an action and finished the tick without executing *)
C15_WitnessReadOnly ==
    /\ read_only
    /\ loop_pc = "iteration_ok"
    /\ action = "Refresh"
    /\ executed = <<>>

-----------------------------------------------------------------------------
(* Vocabulary of the bootstrap properties *)

Funding == SumValues(bootstrap_input.unspent_boxes)

IsSubmit(c) == c.call = "submit_transaction"

FailedCall(c) == c.outcome # "Ok"

(* tx is the transaction of the k-th stage of the chain; a mint carries the
   token of its stage in its first output *)
IsChainTx(tx, k) ==
    LET quantities == bootstrap_input.tokens_to_mint
        amount == <<1, 1, quantities.ballot_tokens, 1,
                    quantities.oracle_tokens, quantities.reward_tokens>>
    IN  /\ tx.stage = Stages[k]
        /\ (k \in 1..6 =>
               /\ tx.outputs[1].tokens
                      = <<Token(minted_tokens[k].token_id, amount[k])>>
               /\ minted_tokens[k].token_id = tx.inputs[1].box_id)

(* C16: a bootstrap funded with exactly E(8)+1 never fails for lack of
   funds, and when no collaborator fails it submits the eight transactions
   in the fixed order, each one only after the one before was accepted. *)
C16_ExactFundingSubmitsEightInOrder ==
    Funding = calc_target_balance(8) + 1 =>
        /\ \A k \in 1..Len(submitted_txs) :
              /\ submitted_txs[k] = signed_txs[k]
              /\ IsChainTx(submitted_txs[k], k)
        /\ \A i \in 1..Len(collaborator_calls) :
              IsSubmit(collaborator_calls[i]) /\ collaborator_calls[i].tx_no > 1
                  => /\ IsSubmit(collaborator_calls[i - 1])
                     /\ collaborator_calls[i - 1].outcome = "Ok"
                     /\ collaborator_calls[i - 1].tx_no
                            = collaborator_calls[i].tx_no - 1
        /\ (bootstrap_result.kind = "Err"
                => bootstrap_result.error.variant
                       \notin {"BoxSelector", "TxBuilder"})
        /\ (bootstrap_result.kind = "Ok" => Len(submitted_txs) = 8)
        /\ (bootstrap_pc = "done" /\ bootstrap_result.kind = "Ok"
                => oracle_config_file = bootstrap_result.config)

(* the bootstrap funded with E(8)+1 has finished with eight submissions *)
C16_Witness ==
    /\ Funding = calc_target_balance(8) + 1
    /\ bootstrap_pc = "done"
    /\ bootstrap_result.kind = "Ok"
    /\ Len(submitted_txs) = 8
    /\ oracle_config_file # NoResult

(* C17: all eight transactions are assembled and signed before the first
   call of submit, and after it no wallet query, selection, building or
   signing happens. *)
C17_AllSignedBeforeFirstSubmission ==
    /\ (SubmitCalls > 0 \/ submitted_txs # <<>> => Len(signed_txs) = 8)
    /\ \A i, j \in 1..Len(collaborator_calls) :
          i < j /\ IsSubmit(collaborator_calls[i])
              => IsSubmit(collaborator_calls[j])
    /\ (SubmitCalls > 0
            => bootstrap_pc \in {"submit", "return", "write_config", "done"})

(* three transactions were submitted, with all eight signed *)
C17_Witness ==
    /\ bootstrap_pc = "submit"
    /\ Len(submitted_txs) = 3
    /\ Len(signed_txs) = 8

(* C18: funding below E(8) fails before any submission; a failure of
   selection, building or signing in any step returns an error with
   nothing submitted. *)
C18_AssemblyFailureSubmitsNothing ==
    /\ (Funding < calc_target_balance(8)
            => /\ submitted_txs = <<>>
               /\ SubmitCalls = 0
               /\ signed_txs = <<>>
               /\ bootstrap_pc \in {"bootstrap", "mint_pool_nft", "done"}
               /\ (bootstrap_pc = "done" => bootstrap_result.kind = "Err"))
    /\ \A i \in 1..Len(collaborator_calls) :
          ~IsSubmit(collaborator_calls[i]) /\ FailedCall(collaborator_calls[i])
              => /\ i = Len(collaborator_calls)
                 /\ bootstrap_pc = "done"
                 /\ bootstrap_result.kind = "Err"
                 /\ submitted_txs = <<>>
                 /\ SubmitCalls = 0
                 /\ oracle_config_file = NoResult

(* a wallet holding one nanoERG less than E(8) made the selection fail *)
C18_Witness ==
    /\ Funding = calc_target_balance(8) - 1
    /\ bootstrap_pc = "done"
    /\ bootstrap_result = Err(BootstrapError("BoxSelector", ""))
    /\ submitted_txs = <<>>

(* signing the fifth transaction failed *)
C18_WitnessSign ==
    /\ bootstrap_pc = "done"
    /\ Len(signed_txs) = 4
    /\ collaborator_calls # <<>>
    /\ collaborator_calls[Len(collaborator_calls)].call
           = "sign_transaction_with_inputs"
    /\ FailedCall(collaborator_calls[Len(collaborator_calls)])

(* C19: when the k-th submission fails, exactly the first k-1 transactions
   were submitted, nothing is submitted, retried or undone afterwards, an
   error is returned and no oracle configuration is written. *)
C19_FailedSubmissionStopsTheChain ==
    \A i \in 1..Len(collaborator_calls) :
        IsSubmit(collaborator_calls[i]) /\ FailedCall(collaborator_calls[i])
            => LET k == collaborator_calls[i].tx_no
               IN  /\ i = Len(collaborator_calls)
                   /\ submitted_txs = SubSeq(signed_txs, 1, k - 1)
                   /\ Len(signed_txs) = 8
                   /\ bootstrap_pc = "done"
                   /\ bootstrap_result
                          = Err(BootstrapError("Node",
                                               collaborator_calls[i].outcome))
                   /\ oracle_config_file = NoResult

(* the fourth submission failed after three were accepted *)
C19_Witness ==
    /\ bootstrap_pc = "done"
    /\ Len(submitted_txs) = 3
    /\ collaborator_calls # <<>>
    /\ IsSubmit(collaborator_calls[Len(collaborator_calls)])
    /\ FailedCall(collaborator_calls[Len(collaborator_calls)])
    /\ collaborator_calls[Len(collaborator_calls)].tx_no = 4

(* the results of a bootstrap that fails reading the wallet's unspent boxes *)
WalletReadFailures == {Err(BootstrapError("Node", e)) : e \in NodeErrors}

(* C20: an error returned after at least one submission differs from every
   result of a failure before any submission, such as a node error while
   reading the wallet's unspent boxes. *)
C20_PartialCompletionDistinguished ==
    submitted_txs # <<>> /\ bootstrap_result.kind = "Err"
        => bootstrap_result \notin WalletReadFailures

Outputs(tx) == {tx.outputs[j] : j \in 1..Len(tx.outputs)}

Inputs(tx) == {tx.inputs[j] : j \in 1..Len(tx.inputs)}

WalletBoxes ==
    {bootstrap_input.unspent_boxes[j] :
        j \in 1..Len(bootstrap_input.unspent_boxes)}

(* the output of transaction k that holds the k-th minted token *)
TokenBoxOf(k) ==
    find_box_with_token(signed_txs[k].outputs, minted_tokens[k].token_id)

(* C21: transaction 1 spends wallet boxes only; each later transaction
   spends outputs of its immediate predecessor only, except that the pool box
   transaction also spends the pool NFT output of transaction 1 and the
   refresh box transaction the refresh NFT output of transaction 2. *)
C21_InputsComeFromPredecessor ==
    \A k \in 1..Len(signed_txs) :
        \A b \in Inputs(signed_txs[k]) :
            IF k = 1 THEN b \in WalletBoxes
            ELSE \/ b \in Outputs(signed_txs[k - 1])
                 \/ k = 7 /\ b = TokenBoxOf(1)
                 \/ k = 8 /\ b = TokenBoxOf(2)

(* all eight transactions are assembled, the last two with their NFT input *)
C21_Witness ==
    /\ Len(signed_txs) = 8
    /\ TokenBoxOf(1) \in Inputs(signed_txs[7])
    /\ TokenBoxOf(2) \in Inputs(signed_txs[8])

E(i) == i * (erg_value_per_box + tx_fee)

(* C22: the mint step run with i transactions left selects inputs for the
   target E(i) and emits a token box of erg_value_per_box and a remainder
   box of E(i-1) guarded by the wallet key; the target is the sum of the
   two and the fee. *)
C22_MintStepTargetsAndOutputs ==
    \A k \in 1..Len(signed_txs) :
        k <= 6 =>
            LET tx == signed_txs[k]
                i == 9 - k
                token_box == tx.outputs[1]
                remaining_funds == tx.outputs[2]
            IN  /\ SumValues(tx.inputs) >= E(i)
                /\ SumValues(SubSeq(tx.inputs, 1, Len(tx.inputs) - 1)) < E(i)
                /\ token_box.value = erg_value_per_box
                /\ remaining_funds.value = E(i - 1)
                /\ remaining_funds.ergo_tree = wallet_pk_ergo_tree
                /\ remaining_funds.tokens = <<>>
                /\ E(i) = token_box.value + remaining_funds.value + tx_fee

(* the six mints are assembled *)
C22_Witness ==
    /\ bootstrap_pc = "create_pool_box"
    /\ Len(signed_txs) = 6
    /\ signed_txs[6].outputs[2].value = E(2)

(* the amount each mint step is called with: 1 for the NFTs, the configured
   quantity for ballot, oracle and reward tokens *)
MintAmount(k) ==
    <<1, 1, bootstrap_input.tokens_to_mint.ballot_tokens, 1,
      bootstrap_input.tokens_to_mint.oracle_tokens,
      bootstrap_input.tokens_to_mint.reward_tokens>>[k]

(* the token box of mint k holds one kind of token, minted in that step *)
HoldsNewToken(tx) ==
    /\ Len(tx.outputs[1].tokens) = 1
    /\ tx.outputs[1].tokens[1].token_id = tx.inputs[1].box_id
    /\ BoxesTokenAmount(tx.inputs, tx.outputs[1].tokens[1].token_id) = 0

(* C23 as stated: the token box of every mint step carries exactly one
   newly minted unit. *)
C23_TokenBoxHoldsOneUnit ==
    \A k \in 1..Len(signed_txs) :
        k <= 6 => /\ HoldsNewToken(signed_txs[k])
                  /\ signed_txs[k].outputs[1].tokens[1].amount = 1

(* C23 amended: the token box of every mint step carries one kind of token,
   newly minted in that step, in the amount the step asks for: 1 for the
   three NFTs and the configured quantity for ballot, oracle and reward
   tokens. *)
C23_TokenBoxHoldsMintedAmount ==
    \A k \in 1..Len(signed_txs) :
        k <= 6 => /\ HoldsNewToken(signed_txs[k])
                  /\ signed_txs[k].outputs[1].tokens[1].amount = MintAmount(k)
                  /\ BoxesTokenAmount(signed_txs[k].outputs,
                                      signed_txs[k].inputs[1].box_id)
                         = MintAmount(k)

(* the ballot token mint is assembled with a quantity above one *)
C23_Witness ==
    /\ Len(signed_txs) >= 3
    /\ bootstrap_input.tokens_to_mint.ballot_tokens > 1
    /\ signed_txs[3].outputs[1].tokens[1].amount
           = bootstrap_input.tokens_to_mint.ballot_tokens

(* C24: the counter starts at 8 and has gone down by one for each
   transaction assembled before, so that the k-th transaction is built
   against E(9-k); it never drops below 1 and no remainder box of value
   E(0) is built. *)
C24_CounterSelectsTargets ==
    /\ (bootstrap_pc = "mint_pool_nft" => num_transactions_left = 8)
    /\ \A k \in 1..8 :
          bootstrap_pc = Stages[k] => /\ num_transactions_left = 9 - k
                                      /\ Len(signed_txs) = k - 1
    /\ (signed_txs # <<>> => num_transactions_left >= 1)
    /\ \A k \in 1..Len(signed_txs) :
          /\ SumValues(signed_txs[k].inputs) >= E(9 - k)
          /\ (k <= 7 => signed_txs[k].outputs[2].value = E(8 - k))
          /\ \A b \in Outputs(signed_txs[k]) : b.value # E(0)
          /\ (k = 8 => \A j \in 2..Len(signed_txs[k].outputs) :
                          \/ signed_txs[k].outputs[j].ergo_tree
                                 = miner_fee_ergo_tree
                          \/ signed_txs[k].outputs[j].ergo_tree
                                 = P2PK(bootstrap_input.change_address))

(* the refresh box transaction is assembled and the counter stands at 1 *)
C24_Witness ==
    /\ Len(signed_txs) = 8
    /\ num_transactions_left = 1
    /\ SumValues(signed_txs[8].inputs) >= E(1)

(* transaction tx takes the NFT with the given id from box b, an output of
   transaction from, and puts it into its first output, a box under the
   named contract *)
MovesNft(tx, b, from, token_id, contract) ==
    /\ b \in Outputs(from)
    /\ b \in Inputs(tx)
    /\ SumTokenAmount(b.tokens, token_id) = 1
    /\ BoxesTokenAmount(tx.inputs, token_id) = 1
    /\ SumTokenAmount(tx.outputs[1].tokens, token_id) = 1
    /\ BoxesTokenAmount(tx.outputs, token_id) = 1
    /\ tx.outputs[1].ergo_tree.contract = contract

(* C25: the pool box transaction spends the output of transaction 1 that
   holds the pool NFT and puts the NFT into the new pool box; the refresh box
   transaction does the same with the refresh NFT output of transaction 2.
   Neither step fails for want of its NFT. *)
C25_NftBoxesFeedPoolAndRefreshBox ==
    /\ (Len(signed_txs) >= 7 =>
           MovesNft(signed_txs[7], TokenBoxOf(1), signed_txs[1],
                    minted_tokens[1].token_id, "PoolContract"))
    /\ (Len(signed_txs) >= 8 =>
           MovesNft(signed_txs[8], TokenBoxOf(2), signed_txs[2],
                    minted_tokens[2].token_id, "RefreshContract"))
    /\ (Len(signed_txs) \in {6, 7} /\ bootstrap_result.kind = "Err"
           => bootstrap_result.error.variant
                  \notin {"BoxSelector", "TxBuilder"})

(* both box-creating transactions are assembled *)
C25_Witness ==
    /\ Len(signed_txs) = 8
    /\ TokenBoxOf(1) \in Inputs(signed_txs[7])
    /\ TokenBoxOf(2) \in Inputs(signed_txs[8])
    /\ signed_txs[8].outputs[1].ergo_tree.contract = "RefreshContract"

(* the outputs of a transaction other than the miner's fee box *)
NonFeeOutputs(tx) ==
    SelectSeq(tx.outputs, LAMBDA b : b.ergo_tree # miner_fee_ergo_tree)

ConservesValue(tx) ==
    SumValues(tx.inputs) = SumValues(NonFeeOutputs(tx)) + tx_fee

ConservesTokens(tx) ==
    \A id \in (TokenIdsOf(tx.inputs) \cup TokenIdsOf(tx.outputs))
                  \ {tx.inputs[1].box_id} :
        BoxesTokenAmount(tx.inputs, id) >= BoxesTokenAmount(tx.outputs, id)

(* C26: every transaction of the chain conserves value and tokens: its input
   values sum to its output values plus the fee, and no token other than the
   one it mints has more units in the outputs than in the inputs. *)
C26_ChainConservesValueAndTokens ==
    \A k \in 1..Len(signed_txs) :
        /\ ConservesValue(signed_txs[k])
        /\ ConservesTokens(signed_txs[k])

(* C27: each minted token has as its id the box id of the first input of its
   minting transaction, which is the id a transaction may mint, so that no
   mint step is rejected when it is built; the six minted ids are pairwise
   distinct. *)
C27_TokenIdIsFirstInputBoxId ==
    /\ \A k \in 1..Len(minted_tokens) :
          minted_tokens[k].token_id = signed_txs[k].inputs[1].box_id
    /\ \A j, k \in 1..Len(minted_tokens) :
          j # k => minted_tokens[j].token_id # minted_tokens[k].token_id
    /\ ~(/\ bootstrap_result = Err(BootstrapError("TxBuilder", ""))
         /\ Len(signed_txs) < 6)

(* six tokens are minted, the first by a transaction with two inputs *)
C27_Witness ==
    /\ Len(minted_tokens) = 6
    /\ Len(signed_txs[1].inputs) = 2
    /\ minted_tokens[1].token_id = bootstrap_input.unspent_boxes[1].box_id

(* the outputs of the signed transactions that none of them spends *)
UnspentOutputs ==
    UNION {Outputs(signed_txs[k]) : k \in 1..Len(signed_txs)}
        \ UNION {Inputs(signed_txs[k]) : k \in 1..Len(signed_txs)}

Holders(token_id) ==
    {b \in UnspentOutputs : SumTokenAmount(b.tokens, token_id) > 0}

(* the token is held by one unspent output only, with amount 1, under the
   given contract *)
HeldOnceBy(token_id, contract) ==
    /\ Cardinality(Holders(token_id)) = 1
    /\ \A b \in Holders(token_id) :
          /\ SumTokenAmount(b.tokens, token_id) = 1
          /\ b.ergo_tree.contract = contract

(* C28: the pool NFT, the refresh NFT and the update NFT are minted with
   amount 1, and after all eight transactions each is held by exactly one
   unspent output with amount 1: the pool box, the refresh box and the
   update-contract box. *)
C28_NftsHeldByExactlyOneUnspentOutput ==
    /\ \A k \in {1, 2, 4} :
          k <= Len(minted_tokens) => minted_tokens[k].amount = 1
    /\ Len(signed_txs) = 8 =>
          /\ HeldOnceBy(minted_tokens[1].token_id, "PoolContract")
          /\ HeldOnceBy(minted_tokens[2].token_id, "RefreshContract")
          /\ HeldOnceBy(minted_tokens[4].token_id, "UpdateContract")

(* the outputs of the submitted transactions that hold the token *)
SubmittedHolders(token_id) ==
    {b \in UNION {Outputs(submitted_txs[k]) : k \in 1..Len(submitted_txs)} :
        SumTokenAmount(b.tokens, token_id) > 0}

(* C29: after a successful bootstrap the submitted transactions contain an
   output that holds the update NFT and is guarded by the update contract,
   parameterised with the pool NFT id and the ballot token id minted in this
   bootstrap, which are the ids of the returned configuration, and with the
   configured min_votes. *)
C29_UpdateNftGuardedByUpdateContract ==
    bootstrap_result.kind = "Ok" =>
        \E b \in SubmittedHolders(bootstrap_result.config.update_nft) :
            /\ b.ergo_tree.contract = "UpdateContract"
            /\ b.ergo_tree.pool_nft_token_id = minted_tokens[1].token_id
            /\ b.ergo_tree.pool_nft_token_id = bootstrap_result.config.pool_nft
            /\ b.ergo_tree.ballot_token_id = minted_tokens[3].token_id
            /\ b.ergo_tree.ballot_token_id
                   = bootstrap_result.config.ballot_token
            /\ b.ergo_tree.min_votes
                   = bootstrap_input.update_contract_parameters.min_votes

(* a bootstrap returned its configuration and the update NFT is in a
   submitted output *)
C29_Witness ==
    /\ bootstrap_result.kind = "Ok"
    /\ SubmittedHolders(bootstrap_result.config.update_nft) # {}
    /\ Len(submitted_txs) = 8

(* the token that the k-th transaction mints: held by its outputs and by none
   of its inputs *)
MintedIn(k, token_id) ==
    /\ BoxesTokenAmount(signed_txs[k].outputs, token_id) > 0
    /\ BoxesTokenAmount(signed_txs[k].inputs, token_id) = 0
    /\ minted_tokens[k].token_id = token_id

AllEightSubmitted ==
    /\ Len(submitted_txs) = 8
    /\ SubmitCalls = 8
    /\ \A i \in 1..Len(collaborator_calls) :
          collaborator_calls[i].call = "submit_transaction"
              => collaborator_calls[i].outcome = "Ok"

(* C30: the generated configuration is returned only after all eight
   submissions succeeded, and its six token ids are those of the tokens minted
   in the mint steps: pool NFT 1, refresh NFT 2, ballot 3, update NFT 4,
   oracle 5, reward 6. *)
C30_ConfigReturnedAfterEightSubmissions ==
    bootstrap_result.kind = "Ok" =>
        /\ AllEightSubmitted
        /\ MintedIn(1, bootstrap_result.config.pool_nft)
        /\ MintedIn(2, bootstrap_result.config.refresh_nft)
        /\ MintedIn(3, bootstrap_result.config.ballot_token)
        /\ MintedIn(4, bootstrap_result.config.update_nft)
        /\ MintedIn(5, bootstrap_result.config.oracle_token)
        /\ MintedIn(6, bootstrap_result.config.reward_token)

(* a configuration was returned, its oracle and ballot ids being different *)
C30_Witness ==
    /\ bootstrap_result.kind = "Ok"
    /\ bootstrap_result.config.oracle_token
           # bootstrap_result.config.ballot_token
    /\ Len(submitted_txs) = 8
    /\ oracle_config_file = bootstrap_result.config

(* C31: a tick that failed with an error is logged and followed, after the
   back-off, by a next tick: the process does not stop. *)
C31_FailedTickDoesNotStopTheProcess ==
    error_log # <<>> => loop_pc # "exited"

(* C32: the pool state of a tick is derived from that tick's reading of the
   chain only: LiveEpoch exactly when the live-epoch state could be read in
   that tick and NeedsBootstrap otherwise, whatever the ticks before it read,
   and a new tick starts without a pool state. *)
C32_PoolStateDerivedFromThisTick ==
    /\ \A i \in 1..Len(observations) :
          observations[i].pool_state = "LiveEpoch"
              <=> observations[i].live_epoch_state = "Ok"
    /\ \A i \in 1..Len(observations) :
          observations[i].pool_state \in {"LiveEpoch", "NeedsBootstrap"}
    /\ pool_state # "None" =>
          /\ observations # <<>>
          /\ observations[Len(observations)].tick = tick
          /\ pool_state = observations[Len(observations)].pool_state
    /\ loop_pc \in {"current_block_height", "get_live_epoch_state"}
          => pool_state = "None"

(* a tick in NeedsBootstrap is followed by a tick in LiveEpoch, and a tick in
   LiveEpoch by one in NeedsBootstrap *)
C32_Witness ==
    /\ Len(observations) = 3
    /\ observations[1].pool_state = "NeedsBootstrap"
    /\ observations[2].pool_state = "LiveEpoch"
    /\ observations[3].pool_state = "NeedsBootstrap"
    /\ observations[2].tick = observations[1].tick + 1

(* the steps of an iteration after which it has not yet returned *)
InIteration ==
    {"current_block_height", "get_live_epoch_state", "process",
     "get_change_address", "build_action", "execute_action"}

(* C33: ticks never overlap: a tick starts only when the iteration of the
   tick before it has returned and the loop is back at its head, so that
   observation, decision, assembly and execution of tick n are over before
   tick n+1 starts. *)
C33_TicksNeverOverlap ==
    [][/\ tick' # tick =>
             /\ tick' = tick + 1
             /\ loop_pc = "loop"
             /\ loop_pc' = "current_block_height"
       /\ loop_pc' = "loop" => loop_pc \in {"loop", "iteration_ok"}
       /\ loop_pc \in InIteration => tick' = tick]_vars

(* a second tick is assembling its transaction after a first one executed
   its action *)
C33_Witness ==
    /\ tick = 2
    /\ loop_pc = "build_action"
    /\ \E i \in 1..Len(executed) : executed[i].tick = 1

(* C34: the GET API thread only takes what the channel holds: none of its
   steps changes the state a tick uses, builds or executes an action, and
   the control loop is never blocked on the channel. *)
C34_ApiThreadLeavesTheLoopAlone ==
    /\ [](loop_pc # "blocked_on_send")
    /\ [][api_served' # api_served =>
             /\ UNCHANGED <<loop_pc, tick, live_epoch_readable, pool_state,
                            cmd, action, executed, error_log, read_only>>
             /\ Len(repost_channel'.queue) <= Len(repost_channel.queue)]_vars

(* the thread served requests while a tick was assembling its transaction,
   and the loop went on to a further tick *)
C34_Witness ==
    /\ api_served = MaxApiRequests
    /\ tick = 2
    /\ loop_pc = "build_action"

(* C35: constructing the buyback wrapper fails with an error when the raw box
   lacks its tokens, so that no wrapper exists over a box without tokens and
   neither reward_token nor new_with_one_reward_token panics on a wrapper. *)
C35_NoWrapperOverBoxWithoutTokens ==
    /\ buyback_wrapper # NoResult => buyback_wrapper.ergo_box.tokens # None
    /\ \A i \in 1..Len(buyback_calls) : buyback_calls[i].outcome.kind # "Panic"
    /\ buyback_pc # "panicked"

(* the calls of new_with_one_reward_token made so far *)
CandidateCalls ==
    {i \in 1..Len(buyback_calls) :
        buyback_calls[i].op = "new_with_one_reward_token"}

(* C40: on a wrapper whose box has a first token, new_with_one_reward_token
   returns a candidate with exactly two tokens, the box's first token
   unchanged and then the wrapper's reward token id with amount 1, with the
   value, guard script and registers of the wrapped box and the creation
   height given, whatever reward tokens the box holds; the wrapped box stays
   as it was. *)
C40_CandidateHoldsNftAndOneRewardToken ==
    \A i \in CandidateCalls :
        LET box == buyback_input.ergo_box
            out == buyback_calls[i].outcome
        IN  box.tokens # None =>
                /\ out.kind = "Ok"
                /\ Len(out.value.tokens) = 2
                /\ out.value.tokens[1] = box.tokens[1]
                /\ out.value.tokens[2].token_id = buyback_input.reward_token_id
                /\ out.value.tokens[2].amount = 1
                /\ out.value.value = box.value
                /\ out.value.ergo_tree = box.ergo_tree
                /\ out.value.additional_registers = box.additional_registers
                /\ out.value.creation_height = buyback_input.creation_height
                /\ buyback_wrapper.ergo_box = box
                /\ buyback_wrapper.reward_token_id
                       = buyback_input.reward_token_id

(* a candidate was made from a box that holds two tokens of another id than
   the wrapper's, at a height other than the box's own *)
C40_Witness ==
    /\ CandidateCalls # {}
    /\ Len(buyback_input.ergo_box.tokens) >= 2
    /\ buyback_input.ergo_box.tokens[2].amount = 2
    /\ buyback_input.ergo_box.tokens[2].token_id
           # buyback_input.reward_token_id
    /\ buyback_input.creation_height
           # buyback_input.ergo_box.creation_height
    /\ buyback_input.ergo_box.additional_registers # <<>>

(* the positions of the oracle inputs of a refresh transaction *)
OracleInputs(tx) == SubSeq(tx.inputs, 3, 2 + Len(valid_in_oracle_boxes))

WalletInputs(tx) ==
    SubSeq(tx.inputs, 3 + Len(valid_in_oracle_boxes), Len(tx.inputs))

IsPrefix(s, t) == Len(s) <= Len(t) /\ s = SubSeq(t, 1, Len(s))

(* C36: the inputs of a returned refresh transaction are, in this order, the
   pool box, the refresh box, the surviving oracle boxes in ascending rate
   order and the selected wallet boxes; its outputs are, in this order, the
   new pool box, the new refresh box and one oracle output per surviving
   oracle box in the order of the inputs; every input is a box supplied by
   the stage sources or the wallet. *)
C36_RefreshInputsAndOutputsInOrder ==
    result.kind = "Ok" =>
        LET tx == result.tx
            n == Len(valid_in_oracle_boxes)
        IN  /\ Len(tx.inputs) >= 2 + n
            /\ tx.inputs[1] = in_pool_box
            /\ tx.inputs[2] = in_refresh_box
            /\ OracleInputs(tx) = valid_in_oracle_boxes
            /\ \A i \in 1..n :
                  \E j \in 1..Len(in_oracle_boxes) :
                      OracleInputs(tx)[i] = in_oracle_boxes[j]
            /\ \A i \in 1..(n - 1) :
                  OracleInputs(tx)[i].rate <= OracleInputs(tx)[i + 1].rate
            /\ WalletInputs(tx) # <<>>
            /\ IsPrefix(WalletInputs(tx), unspent_boxes)
            /\ Len(tx.output_candidates) = 2 + n
            /\ tx.output_candidates[1].kind = "pool"
            /\ tx.output_candidates[2].kind = "refresh"
            /\ \A i \in 1..n :
                  /\ tx.output_candidates[2 + i].kind = "oracle"
                  /\ tx.output_candidates[2 + i].id = tx.inputs[2 + i].id

(* a refresh over three oracle boxes supplied out of rate order, paid for by
   two wallet boxes *)
C36_Witness ==
    /\ result.kind = "Ok"
    /\ Len(valid_in_oracle_boxes) = 3
    /\ in_oracle_boxes[1].rate > in_oracle_boxes[3].rate
    /\ Len(WalletInputs(result.tx)) = 2
    /\ result.tx.inputs[3].id # 1

(* the transactions of the chain that spend the box *)
SpentBy(b) == {k \in 1..Len(signed_txs) : b \in Inputs(signed_txs[k])}

(* C37: no box is spent twice within the chain: every output of the signed
   transactions and every wallet box is an input of at most one of them, and
   the pool NFT box of transaction 1 and the refresh NFT box of transaction 2
   are spent by no transaction other than the pool box and the refresh box
   transaction. *)
C37_NoBoxSpentTwice ==
    /\ \A k \in 1..Len(signed_txs) :
          \A b \in Outputs(signed_txs[k]) : Cardinality(SpentBy(b)) <= 1
    /\ \A b \in WalletBoxes : Cardinality(SpentBy(b)) <= 1
    /\ Len(signed_txs) >= 1 => SpentBy(TokenBoxOf(1)) \subseteq {7}
    /\ Len(signed_txs) >= 2 => SpentBy(TokenBoxOf(2)) \subseteq {8}

(* the boxes from which step k of the chain selects its inputs *)
CandidateInputs(k) ==
    chain_inputs(signed_txs, k - 1)
        \o (IF k = 7 THEN <<TokenBoxOf(1)>>
            ELSE IF k = 8 THEN <<TokenBoxOf(2)>> ELSE <<>>)

(* the tokens step k must find among its inputs *)
TokensToSelect(k) ==
    IF k = 7 THEN <<minted_tokens[1], minted_tokens[6]>>
    ELSE IF k = 8 THEN <<minted_tokens[2]>> ELSE <<>>

LacksFunds ==
    /\ bootstrap_result.kind = "Err"
    /\ bootstrap_result.error.variant \in {"BoxSelector", "TxBuilder"}

(* C38: once the first transaction is assembled from the wallet sweep, no
   later step fails for lack of funds: the wallet-guarded outputs of
   transaction k-1, with the tracked NFT box in steps 7 and 8, are worth at
   least E(9-k) and hold every token step k must select, whatever the
   oracle-token address and the change address are. *)
C38_NoLaterStepLacksFunds ==
    Len(signed_txs) >= 1 =>
        /\ ~LacksFunds
        /\ \A k \in 2..8 :
              k <= Len(signed_txs) + 1 =>
                  /\ SumValues(CandidateInputs(k)) >= E(9 - k)
                  /\ \A i \in 1..Len(TokensToSelect(k)) :
                        BoxesTokenAmount(CandidateInputs(k),
                                         TokensToSelect(k)[i].token_id)
                            >= TokensToSelect(k)[i].amount

(* the eight transactions are assembled from exactly E(8) with an oracle-token
   address and a change address that are not the funding address *)
C38_Witness ==
    /\ Len(signed_txs) = 8
    /\ Funding = E(8)
    /\ bootstrap_input.change_address # "wallet_address_for_chain_transaction"
    /\ bootstrap_input.address_for_oracle_tokens
           # "wallet_address_for_chain_transaction"

(* the outputs of the signed transactions guarded by the pool contract *)
PoolBoxes ==
    {b \in UNION {Outputs(signed_txs[k]) : k \in 1..Len(signed_txs)} :
        b.ergo_tree.contract = "PoolContract"}

RewardNotAboveOracle ==
    bootstrap_input.tokens_to_mint.reward_tokens
        <= bootstrap_input.tokens_to_mint.oracle_tokens

(* C39: the pool box made by bootstrap holds the pool NFT and the minted
   reward quantity less the minted oracle-token quantity in reward tokens,
   with rate 0 and epoch counter 1; when the reward quantity is not greater
   than the oracle-token quantity the bootstrap stops before the pool box
   transaction is assembled, and nothing is submitted. *)
C39_PoolBoxTokensRateAndEpoch ==
    /\ \A b \in PoolBoxes :
          /\ b \in Outputs(signed_txs[7])
          /\ b.tokens =
                 <<Token(minted_tokens[1].token_id, 1),
                   Token(minted_tokens[6].token_id,
                         bootstrap_input.tokens_to_mint.reward_tokens
                             - bootstrap_input.tokens_to_mint.oracle_tokens)>>
          /\ minted_tokens[6].amount
                 = bootstrap_input.tokens_to_mint.reward_tokens
          /\ minted_tokens[5].amount
                 = bootstrap_input.tokens_to_mint.oracle_tokens
          /\ b.registers = <<0, 1>>
          /\ b.value = erg_value_per_box
    /\ Len(signed_txs) >= 7 => Cardinality(PoolBoxes) = 1
    /\ RewardNotAboveOracle =>
          /\ Len(signed_txs) <= 6
          /\ submitted_txs = <<>>
          /\ SubmitCalls = 0
          /\ bootstrap_pc \notin {"create_refresh_box", "submit", "return"}
          /\ bootstrap_result.kind # "Ok"

(* a pool box with 3 of 5 reward tokens was made, two being left for the two
   oracles *)
C39_Witness ==
    /\ PoolBoxes # {}
    /\ bootstrap_input.tokens_to_mint.reward_tokens = 5
    /\ bootstrap_input.tokens_to_mint.oracle_tokens = 2
    /\ \E b \in PoolBoxes : b.tokens[2].amount = 3

(* the bootstrap stopped at the pool box step for a reward quantity below the
   oracle-token quantity *)
C39_WitnessStopped ==
    /\ bootstrap_input.tokens_to_mint.reward_tokens = 1
    /\ Len(signed_txs) = 6
    /\ bootstrap_pc = "done"
    /\ bootstrap_result.kind = "Panic"

====
